---- MODULE Spec2Model ----
(***************************************************************************)
(* Verification model of MMiyako/verify-files: the manifest-driven file    *)
(* list and checksum verification scripts.                                 *)
(*                                                                         *)
(* Strings are sequences of one-character strings, so that the glob        *)
(* compiler, the regular-expression test and the path arithmetic are       *)
(* computed character by character, as the scripts compute them.           *)
(***************************************************************************)
EXTENDS Integers, Sequences, FiniteSets, TLC

VARIABLES
    \* --- the file system ---
    tree,           \* the directories and data files that exist (absolute paths)
    unreadable,     \* the directories whose readdir fails
    content,        \* data file -> its content
    reports,        \* report (sidecar) path -> its content, or NoFile
    manifestText,   \* the manifest file's content, or NoFile when unreadable
    sha1FilePath,   \* path.resolve(sha1File)
    lastIo,         \* the latest writeFile / unlink of a report and how it went
    \* --- the command line ---
    rawExcludeDirs, \* the -xd patterns
    rawExcludeFiles,\* the -xf patterns
    ignoreConfigFlag,\* -i / --ignore was given
    \* --- the running script ---
    script,         \* which script runs: "none", "files", "files_i", "checksum", ...
    pc,             \* where main() stands
    exitCode,       \* the process exit status; NotExited while running
    expectedFiles,  \* file-list mode: the manifest's paths
    entries,        \* checksum mode: the manifest's {expectedHash, filePath}
    actualFiles,    \* what getFileList returned
    excludeDirs,    \* the -i script: the config directories found
    excludedLog,    \* {dirs, files}: what getFileList skipped
    readdirCalls,   \* every directory readdir was called on, in call order
    missing,        \* file-list mode: expected and not walked
    extra,          \* file-list mode: walked and not expected
    i,              \* checksum mode: the loop index (entries done)
    mismatches,     \* checksum mode: report lines of mismatches and errors
    missingFiles,   \* checksum mode: paths whose probe said ENOENT
    failedChecksums,\* the older checksum script: its one list of report lines
    probeLog,       \* checksum mode, per entry: what the probe and the read met
    runs,           \* how many runs have been started
    history,        \* one record per finished run
    \* --- GlobSpec ---
    glob,           \* the raw pattern handed to globToRegex
    subject,        \* the string handed to regex.test
    tested,         \* "idle", "unset", or what regex.test returned: "true", "false"
    \* --- HashSpec ---
    hashPath,       \* the filePath handed to calculateSHA1
    hashMethod,     \* the method handed to calculateSHA1: "nodejs" or "sha1sum"
    hashLog,        \* what each call of calculateSHA1 gave, in order
    \* --- DispatchSpec ---
    argv,           \* process.argv.slice(2) of the verify command
    options,        \* what parseArgs returned, with main's default mode
    child,          \* the script runScript spawned, and its arguments
    verifyPc,       \* "idle", "start", "awaiting", "exit0", "exit1", "interrupted"
    \* --- StepSpec ---
    walkCalls,      \* directory -> the call of getFileList on it: state, k, files
    inFlight,       \* the asynchronous operations begun and not yet settled
    loopPc          \* the entry loop: "head", "probing", "probed", "hashing"

fsVars == <<tree, unreadable, content, reports, manifestText, sha1FilePath, lastIo>>
argVars == <<rawExcludeDirs, rawExcludeFiles, ignoreConfigFlag>>
walkVars == <<actualFiles, excludeDirs, excludedLog, readdirCalls, missing, extra>>
sumVars == <<i, mismatches, missingFiles, failedChecksums, probeLog>>
runVars == <<script, pc, exitCode, expectedFiles, entries, runs, history>>
globVars == <<glob, subject, tested>>
hashVars == <<hashPath, hashMethod, hashLog>>
dispatchVars == <<argv, options, child, verifyPc>>
stepVars == <<walkCalls, inFlight, loopPc>>
vars == <<fsVars, argVars, walkVars, sumVars, runVars, globVars, hashVars, dispatchVars,
          stepVars>>

----------------------------------------------------------------------------
(* Bounds of the model *)

MaxGlobLen == 3
MaxSubjectLen == 3

----------------------------------------------------------------------------
(* Characters *)

\* String.prototype.toUpperCase on the letters the model uses; every other
\* character is its own upper case.  RegExp's "i" flag canonicalises both
\* sides with it.
Canonicalize(c) ==
    CASE c = "a" -> "A" [] c = "b" -> "B" [] c = "c" -> "C" [] c = "d" -> "D"
      [] c = "e" -> "E" [] c = "f" -> "F" [] c = "g" -> "G" [] c = "h" -> "H"
      [] c = "i" -> "I" [] c = "k" -> "K" [] c = "l" -> "L" [] c = "m" -> "M"
      [] c = "n" -> "N" [] c = "o" -> "O" [] c = "r" -> "R" [] c = "s" -> "S"
      [] c = "t" -> "T" [] c = "u" -> "U" [] c = "x" -> "X"
      [] OTHER -> c

\* The characters the regular expression atom "." refuses (no "s" flag).
LineTerminators == {"\n", "\r"}

\* The class [.+?^${}()|[\]\\] of globToRegex's first replace.
RegexSpecials == {".", "+", "?", "^", "$", "{", "}", "(", ")", "|", "[", "]", "\\"}

----------------------------------------------------------------------------
(* Strings and paths (node's String and path modules, POSIX flavour) *)

Chars(s) == {s[k] : k \in DOMAIN s}

\* String.prototype.toLowerCase on the letters the model uses.
ToLowerChar(c) ==
    CASE c = "A" -> "a" [] c = "B" -> "b" [] c = "C" -> "c" [] c = "D" -> "d"
      [] c = "E" -> "e" [] c = "F" -> "f" [] c = "M" -> "m" [] c = "T" -> "t"
      [] OTHER -> c

toLowerCase(s) == [k \in DOMAIN s |-> ToLowerChar(s[k])]

\* The characters String.prototype.trim strips.
WhiteSpace == {" ", "\t", "\n", "\r", "\f"}

RECURSIVE TrimStart(_)
TrimStart(s) ==
    IF s # <<>> /\ Head(s) \in WhiteSpace THEN TrimStart(Tail(s)) ELSE s

RECURSIVE TrimEnd(_)
TrimEnd(s) ==
    IF s # <<>> /\ s[Len(s)] \in WhiteSpace
    THEN TrimEnd(SubSeq(s, 1, Len(s) - 1)) ELSE s

trim(s) == TrimEnd(TrimStart(s))

\* s.substring(from, to) with JavaScript's 0-based, end-exclusive indices,
\* both clamped to the string.
Min(a, b) == IF a < b THEN a ELSE b
substring(s, from, to) == SubSeq(s, Min(from, Len(s)) + 1, Min(to, Len(s)))
substringFrom(s, from) == substring(s, from, Len(s))

RECURSIVE Split(_, _)
\* s.split(sep) for a one-character separator: Len >= 1 always.
Split(s, sep) ==
    IF \A k \in DOMAIN s : s[k] # sep THEN <<s>>
    ELSE LET at == CHOOSE k \in DOMAIN s :
                      s[k] = sep /\ \A j \in 1..(k - 1) : s[j] # sep
         IN  <<SubSeq(s, 1, at - 1)>> \o Split(SubSeq(s, at + 1, Len(s)), sep)

RECURSIVE Join(_, _)
\* list.join(sep)
Join(list, sep) ==
    IF list = <<>> THEN <<>>
    ELSE IF Len(list) = 1 THEN list[1]
    ELSE list[1] \o sep \o Join(Tail(list), sep)

\* p.replace(/\\/g, "/")
normalizePath(p) == [k \in DOMAIN p |-> IF p[k] = "\\" THEN "/" ELSE p[k]]

RECURSIVE NormalizeSegments(_, _)
\* path.normalize's walk over the segments of an absolute path: "" and "."
\* dropped, ".." popping the segment before it.
NormalizeSegments(segs, stack) ==
    IF segs = <<>> THEN stack
    ELSE LET seg == Head(segs)
         IN  NormalizeSegments(Tail(segs),
                 IF seg = <<>> \/ seg = <<".">> THEN stack
                 ELSE IF seg = <<".", ".">>
                      THEN SubSeq(stack, 1, Len(stack) - 1)
                      ELSE Append(stack, seg))

PathNormalizeAbs(p) ==
    <<"/">> \o Join(NormalizeSegments(Split(p, "/"), <<>>), <<"/">>)

\* path.join(dir, name), dir absolute
PathJoin(dir, name) == PathNormalizeAbs(dir \o <<"/">> \o name)

\* path.resolve(rootDir, item), rootDir absolute
PathResolve(rootDir, item) ==
    IF item # <<>> /\ Head(item) = "/" THEN PathNormalizeAbs(item)
    ELSE PathNormalizeAbs(rootDir \o <<"/">> \o item)

LastIndexOf(s, c) ==
    IF \A k \in DOMAIN s : s[k] # c THEN 0
    ELSE CHOOSE k \in DOMAIN s : s[k] = c /\ \A j \in (k + 1)..Len(s) : s[j] # c

\* path.dirname(p) and path.basename(p), p absolute and normalized
PathDirname(p) ==
    IF LastIndexOf(p, "/") <= 1 THEN <<"/">>
    ELSE SubSeq(p, 1, LastIndexOf(p, "/") - 1)
PathBasename(p) == SubSeq(p, LastIndexOf(p, "/") + 1, Len(p))

\* path.parse(p).name: the base name without its extension
PathParseName(p) ==
    LET base == PathBasename(p)
        dot == LastIndexOf(base, ".")
    IN  IF dot <= 1 THEN base ELSE SubSeq(base, 1, dot - 1)

IsPrefix(a, b) == Len(a) <= Len(b) /\ SubSeq(b, 1, Len(a)) = a

\* path.relative(baseDir, fullPath) for a fullPath at or below baseDir, the
\* only case getFileList meets.
PathRelative(baseDir, fullPath) ==
    IF fullPath = baseDir THEN <<>>
    ELSE SubSeq(fullPath, Len(baseDir) + 2, Len(fullPath))

Range(s) == {s[k] : k \in DOMAIN s}

SeqsUpTo(S, n) == UNION {[1..k -> S] : k \in 0..n}

----------------------------------------------------------------------------
(* globToRegex and RegExp.prototype.test *)

RECURSIVE FlatMap(_, _)
\* s.replace(/<one char>/g, f): every character c replaced by the string f[c].
FlatMap(f, s) ==
    IF s = <<>> THEN <<>> ELSE f[Head(s)] \o FlatMap(f, Tail(s))

\* The same step with the escape forgotten.
EscapeSpecialsNone(s) == s

\* glob.replace(/[.+?^${}()|[\]\\]/g, "\\$&")
EscapeSpecials(s) ==
    FlatMap([c \in {s[k] : k \in DOMAIN s} |->
                IF c \in RegexSpecials THEN <<"\\", c>> ELSE <<c>>], s)

\* regexString.replace(/\*/g, ".*")
ExpandStars(s) ==
    FlatMap([c \in {s[k] : k \in DOMAIN s} |->
                IF c = "*" THEN <<".", "*">> ELSE <<c>>], s)

\* The source of the RegExp globToRegex builds, without its ^ and $ anchors
\* (RegexTest anchors both ends).
globToRegex(g) == ExpandStars(EscapeSpecials(g))

RECURSIVE RegexItems(_)
\* The pattern parsed into items: an atom ("lit" one character, "any" the
\* dot) and its quantifier ("1", "*", "+", "?").
RegexItems(r) ==
    IF r = <<>> THEN <<>>
    ELSE LET escaped == Head(r) = "\\" /\ Len(r) >= 2
             atomLen == IF escaped THEN 2 ELSE 1
             atom == IF escaped THEN [kind |-> "lit", ch |-> r[2]]
                     ELSE IF Head(r) = "." THEN [kind |-> "any", ch |-> "."]
                     ELSE [kind |-> "lit", ch |-> Head(r)]
             rest == SubSeq(r, atomLen + 1, Len(r))
             quantified == rest # <<>> /\ Head(rest) \in {"*", "+", "?"}
             q == IF quantified THEN Head(rest) ELSE "1"
         IN  <<[atom |-> atom, q |-> q]>>
               \o RegexItems(IF quantified THEN Tail(rest) ELSE rest)

\* One atom against one character, under the "i" flag.
AtomMatches(atom, c) ==
    IF atom.kind = "any" THEN c \notin LineTerminators
    ELSE Canonicalize(atom.ch) = Canonicalize(c)

RECURSIVE MatchFrom(_, _, _, _)
\* Backtracking match of items[k..] against s[j..], anchored at the end.
MatchFrom(items, k, s, j) ==
    IF k > Len(items) THEN j = Len(s) + 1
    ELSE LET it == items[k]
             here == j <= Len(s) /\ AtomMatches(it.atom, s[j])
         IN  CASE it.q = "1" -> here /\ MatchFrom(items, k + 1, s, j + 1)
               [] it.q = "*" -> \/ MatchFrom(items, k + 1, s, j)
                                \/ here /\ MatchFrom(items, k, s, j + 1)
               [] it.q = "+" -> here /\ (\/ MatchFrom(items, k + 1, s, j + 1)
                                         \/ MatchFrom(items, k, s, j + 1))
               [] it.q = "?" -> \/ MatchFrom(items, k + 1, s, j)
                                \/ here /\ MatchFrom(items, k + 1, s, j + 1)

\* new RegExp(`^${regexString}$`, "i").test(s)
RegexTest(regexString, s) == MatchFrom(RegexItems(regexString), 1, s, 1)

----------------------------------------------------------------------------
(* The file system the scripts run against *)

NoFile == [exists |-> FALSE, data |-> <<>>]
File(data) == [exists |-> TRUE, data |-> data]

\* targetDir: the directory that is scanned.  OtherDir: where the manifest
\* lies when it does not lie in the target directory itself.
TargetDir == <<"/", "t">>
OtherDir == <<"/", "s">>
ManifestName == <<"m", ".", "s", "h", "a", "1">>

\* Every directory entry that may exist below TargetDir, in the order
\* readdir lists them.
Universe ==
    << [path |-> <<"/", "t", "/", "a">>, isDirectory |-> FALSE],
       [path |-> <<"/", "t", "/", "d">>, isDirectory |-> TRUE],
       [path |-> <<"/", "t", "/", "d", "/", "a">>, isDirectory |-> FALSE],
       [path |-> <<"/", "t", "/", "d", "/", "e">>, isDirectory |-> TRUE],
       [path |-> <<"/", "t", "/", "d", "/", "e", "/", "b">>, isDirectory |-> FALSE],
       [path |-> <<"/", "t", "/", "C", "o", "n", "f", "i", "g">>, isDirectory |-> TRUE],
       [path |-> <<"/", "t", "/", "C", "o", "n", "f", "i", "g", "/", "a">>,
        isDirectory |-> FALSE],
       [path |-> <<"/", "t", "/", "C", "o", "n", "f", "i", "g", "s">>, isDirectory |-> TRUE],
       [path |-> <<"/", "t", "/", "C", "o", "n", "f", "i", "g", "s", "/", "a">>,
        isDirectory |-> FALSE],
       [path |-> <<"/", "t", "/", "C", "o", "n", "f", "i", "g", ".", "j", "s", "o", "n">>,
        isDirectory |-> FALSE] >>

UniversePaths == {Universe[k].path : k \in DOMAIN Universe}
UniverseDirs == {Universe[k].path : k \in {j \in DOMAIN Universe : Universe[j].isDirectory}}
UniverseFiles == UniversePaths \ UniverseDirs

\* A tree holds an entry only inside a directory it holds.
ParentClosed(t) ==
    \A p \in t : PathDirname(p) = TargetDir \/ PathDirname(p) \in t

\* --- the paths main() derives from its arguments ---
sha1Dir == PathDirname(sha1FilePath)
sha1FileName == PathParseName(sha1FilePath)
missingFilePath == PathJoin(sha1Dir, sha1FileName \o <<"_", "m", "i", "s", "s", "i", "n", "g", "_", "f", "i", "l", "e", "s", ".", "t", "x", "t">>)
extraFilePath == PathJoin(sha1Dir, sha1FileName \o <<"_", "e", "x", "t", "r", "a", "_", "f", "i", "l", "e", "s", ".", "t", "x", "t">>)
outputFilePath == PathJoin(sha1Dir, sha1FileName \o <<"_", "c", "h", "e", "c", "k", "s", "u", "m", "_", "f", "a", "i", "l", "e", "d", ".", "t", "x", "t">>)

\* The older script takes no target directory: it verifies the parent of
\* the directory it is started in, and writes its report where it is started.
Cwd == <<"/", "t", "/", "d">>
parentDir == PathResolve(Cwd, <<".", ".">>)
oldReportPath == PathResolve(Cwd, <<"_", "c", "h", "e", "c", "k", "s", "u", "m", "_", "f", "a", "i", "l", "e", "d", "_">> \o sha1FileName \o <<".", "t", "x", "t">>)

ReportPaths == <<missingFilePath, extraFilePath, outputFilePath, oldReportPath>>

\* The read taken to succeed whatever the file is.
ManifestAssumed == TRUE

ManifestExists == manifestText.exists

\* The regular files beside the data files: the manifest and the reports.
PlainFiles ==
    (IF ManifestExists THEN <<sha1FilePath>> ELSE <<>>)
        \o SelectSeq(ReportPaths, LAMBDA p : reports[p].exists)

DirExists(p) == p = TargetDir \/ p = OtherDir \/ (p \in tree /\ p \in UniverseDirs)
FileExists(p) == (p \in tree /\ p \in UniverseFiles) \/ p \in Range(PlainFiles)

\* readdir(dir, {withFileTypes: true}) of a directory that can be read
Dirent(p, isDir) == [name |-> PathBasename(p), isDirectory |-> isDir]
Readdir(dir) ==
    LET nodes == SelectSeq(Universe,
                     LAMBDA n : n.path \in tree /\ PathDirname(n.path) = dir)
        plain == SelectSeq(PlainFiles, LAMBDA p : PathDirname(p) = dir)
    IN  [k \in DOMAIN nodes |-> Dirent(nodes[k].path, nodes[k].isDirectory)]
          \o [k \in DOMAIN plain |-> Dirent(plain[k], FALSE)]

ReaddirFails(dir) == dir \in unreadable \/ ~DirExists(dir)

----------------------------------------------------------------------------
(* The manifest parser *)

MinLineLength == 11
HashLength == 10
PathOffset == 11

\* The filter taken on the length of the line as it stands, untrimmed.
ManifestLinesUntrimmed(text) ==
    SelectSeq(Split(text, "\n"), LAMBDA line : Len(line) >= MinLineLength)

\* sha1Data.split("\n").filter((line) => line.trim().length >= 11)
ManifestLines(text) ==
    SelectSeq(Split(text, "\n"), LAMBDA line : Len(trim(line)) >= MinLineLength)

\* file-list mode: .map((line) => normalizePath(line.substring(11).trim()))
ParseExpectedFiles(text) ==
    LET lines == ManifestLines(text)
    IN  [k \in DOMAIN lines |->
            normalizePath(trim(substringFrom(lines[k], PathOffset)))]

\* The checksum parse with the fingerprint kept in the case it was written.
ParseEntriesKeepCase(text) ==
    LET lines == ManifestLines(text)
    IN  [k \in DOMAIN lines |->
            [expectedHash |-> substring(lines[k], 0, HashLength),
             filePath |-> normalizePath(trim(substringFrom(lines[k], PathOffset)))]]

\* checksum mode: .map((line) => ({expectedHash: ..., filePath: ...}))
ParseEntries(text) ==
    LET lines == ManifestLines(text)
    IN  [k \in DOMAIN lines |->
            [expectedHash |-> toLowerCase(substring(lines[k], 0, HashLength)),
             filePath |-> normalizePath(trim(substringFrom(lines[k], PathOffset)))]]

----------------------------------------------------------------------------
(* The exclusion rules and the tree walk (files.js with -xd / -xf) *)

RECURSIVE processExcludeListSlashOnly(_, _)
\* The compilation with the separator looked for in the raw item, before
\* its backslashes are normalized.
processExcludeListSlashOnly(rawList, rootDir) ==
    IF rawList = <<>> THEN [namePatterns |-> <<>>, pathPatterns |-> <<>>]
    ELSE LET item == rawList[Len(rawList)]
             before == processExcludeListSlashOnly(SubSeq(rawList, 1, Len(rawList) - 1),
                                                   rootDir)
         IN  IF "/" \in Chars(item)
             THEN [before EXCEPT !.pathPatterns =
                      Append(@, globToRegex(normalizePath(PathResolve(rootDir, item))))]
             ELSE [before EXCEPT !.namePatterns = Append(@, globToRegex(normalizePath(item)))]

RECURSIVE processExcludeList(_, _)
\* Each raw pattern compiled once: with a "/" (after normalizePath) it is
\* resolved against rootDir and becomes a path pattern, else a name pattern.
processExcludeList(rawList, rootDir) ==
    IF rawList = <<>> THEN [namePatterns |-> <<>>, pathPatterns |-> <<>>]
    ELSE LET item == rawList[Len(rawList)]
             before == processExcludeList(SubSeq(rawList, 1, Len(rawList) - 1), rootDir)
             normalizedItem == normalizePath(item)
         IN  IF "/" \in Chars(normalizedItem)
             THEN [before EXCEPT !.pathPatterns =
                      Append(@, globToRegex(normalizePath(PathResolve(rootDir, item))))]
             ELSE [before EXCEPT !.namePatterns = Append(@, globToRegex(normalizedItem))]

ExcludeRules(rawDirs, rawFiles, targetDir) ==
    LET dirs == processExcludeList(rawDirs, targetDir)
        files == processExcludeList(rawFiles, targetDir)
    IN  [dirNames |-> dirs.namePatterns, dirPaths |-> dirs.pathPatterns,
         fileNames |-> files.namePatterns, filePaths |-> files.pathPatterns]

\* list.some((regex) => regex.test(s))
SomeTest(list, s) == \E k \in DOMAIN list : RegexTest(list[k], s)

\* The directory branch's isExcluded, with the file rules consulted instead.
IsExcludedDirByFileRules(rules, name, normalizedFullPath) ==
    \/ SomeTest(rules.fileNames, name)
    \/ SomeTest(rules.filePaths, normalizedFullPath)

\* The directory branch's isExcluded
IsExcludedDir(rules, name, normalizedFullPath) ==
    \/ SomeTest(rules.dirNames, name)
    \/ SomeTest(rules.dirPaths, normalizedFullPath)

\* The file branch's isExcluded
IsExcludedFile(rules, name, normalizedFullPath) ==
    \/ SomeTest(rules.fileNames, name)
    \/ SomeTest(rules.filePaths, normalizedFullPath)

EmptyLog == [dirs |-> <<>>, files |-> <<>>, calls |-> <<>>]

RECURSIVE getFileList(_, _, _, _)
RECURSIVE WalkItems(_, _, _, _, _, _)

\* The walk that holds the directory rules against the directory it is
\* asked to read, the root included.
getFileListRootGuarded(dir, baseDir, rules, log) ==
    IF IsExcludedDir(rules, PathBasename(dir), normalizePath(dir))
    THEN [files |-> <<>>, log |-> log]
    ELSE LET called == [log EXCEPT !.calls = Append(@, dir)]
         IN  IF ReaddirFails(dir) THEN [files |-> <<>>, log |-> called]
             ELSE WalkItems(dir, baseDir, rules, Readdir(dir), 1,
                            [files |-> <<>>, log |-> called])

RECURSIVE WalkItemsKeepsExcluded(_, _, _, _, _, _)
\* The walk that logs an excluded file and still puts it on the file list.
WalkItemsKeepsExcluded(dir, baseDir, rules, items, k, st) ==
    IF k > Len(items) THEN st
    ELSE LET item == items[k]
             fullPath == PathJoin(dir, item.name)
             normalizedFullPath == normalizePath(fullPath)
             relativePath == normalizePath(PathRelative(baseDir, fullPath))
             after ==
                 IF item.isDirectory
                 THEN IF IsExcludedDir(rules, item.name, normalizedFullPath)
                      THEN [st EXCEPT !.log.dirs = Append(@, relativePath)]
                      ELSE LET sub == getFileList(fullPath, baseDir, rules, st.log)
                           IN  [files |-> st.files \o sub.files, log |-> sub.log]
                 ELSE IF IsExcludedFile(rules, item.name, normalizedFullPath)
                      THEN [st EXCEPT !.log.files = Append(@, relativePath),
                                      !.files = Append(@, relativePath)]
                      ELSE [st EXCEPT !.files = Append(@, relativePath)]
         IN  WalkItemsKeepsExcluded(dir, baseDir, rules, items, k + 1, after)

RECURSIVE WalkItemsNoPrune(_, _, _, _, _, _)
\* The loop with the `continue` after an excluded directory forgotten: the
\* directory is logged and walked all the same.
WalkItemsNoPrune(dir, baseDir, rules, items, k, st) ==
    IF k > Len(items) THEN st
    ELSE LET item == items[k]
             fullPath == PathJoin(dir, item.name)
             normalizedFullPath == normalizePath(fullPath)
             relativePath == normalizePath(PathRelative(baseDir, fullPath))
             logged == IF item.isDirectory
                          /\ IsExcludedDir(rules, item.name, normalizedFullPath)
                       THEN [st EXCEPT !.log.dirs = Append(@, relativePath)]
                       ELSE st
             after ==
                 IF item.isDirectory
                 THEN LET sub == getFileList(fullPath, baseDir, rules, logged.log)
                      IN  [files |-> st.files \o sub.files, log |-> sub.log]
                 ELSE IF IsExcludedFile(rules, item.name, normalizedFullPath)
                      THEN [st EXCEPT !.log.files = Append(@, relativePath)]
                      ELSE [st EXCEPT !.files = Append(@, relativePath)]
         IN  WalkItemsNoPrune(dir, baseDir, rules, items, k + 1, after)

\* The for loop of getFileList over items[k..]; st holds the local `files`
\* and the shared log.
WalkItems(dir, baseDir, rules, items, k, st) ==
    IF k > Len(items) THEN st
    ELSE LET item == items[k]
             fullPath == PathJoin(dir, item.name)
             normalizedFullPath == normalizePath(fullPath)
             relativePath == normalizePath(PathRelative(baseDir, fullPath))
             after ==
                 IF item.isDirectory
                 THEN IF IsExcludedDir(rules, item.name, normalizedFullPath)
                      THEN [st EXCEPT !.log.dirs = Append(@, relativePath)]
                      ELSE LET sub == getFileList(fullPath, baseDir, rules, st.log)
                           IN  [files |-> st.files \o sub.files, log |-> sub.log]
                 ELSE IF IsExcludedFile(rules, item.name, normalizedFullPath)
                      THEN [st EXCEPT !.log.files = Append(@, relativePath)]
                      ELSE [st EXCEPT !.files = Append(@, relativePath)]
         IN  WalkItems(dir, baseDir, rules, items, k + 1, after)

\* getFileList(dir, baseDir, excludeRules, excludedLog): the files below dir
\* and the log as the call leaves it.  A readdir that throws is caught: the
\* call returns no file.
getFileList(dir, baseDir, rules, log) ==
    LET called == [log EXCEPT !.calls = Append(@, dir)]
    IN  IF ReaddirFails(dir) THEN [files |-> <<>>, log |-> called]
        ELSE WalkItems(dir, baseDir, rules, Readdir(dir), 1,
                       [files |-> <<>>, log |-> called])

----------------------------------------------------------------------------
(* File-list reconciliation *)

\* expectedFiles.filter((file) => !actualSet.has(file)), over the expected
\* paths with their duplicates dropped.
MissingOfDistinct(expected, actual) ==
    LET firsts == SelectSeq([k \in DOMAIN expected |-> k],
                      LAMBDA k : \A j \in 1..(k - 1) : expected[j] # expected[k])
    IN  SelectSeq([k \in DOMAIN firsts |-> expected[firsts[k]]],
                  LAMBDA file : file \notin Range(actual))

\* expectedFiles.filter((file) => !actualSet.has(file))
MissingOf(expected, actual) ==
    SelectSeq(expected, LAMBDA file : file \notin Range(actual))

\* actualFiles.filter((file) => !actualSet.has(file)): the wrong set.
ExtraOfWalked(expected, actual) ==
    SelectSeq(actual, LAMBDA file : file \notin Range(actual))

\* actualFiles.filter((file) => !expectedSet.has(file))
ExtraOf(expected, actual) ==
    SelectSeq(actual, LAMBDA file : file \notin Range(expected))

----------------------------------------------------------------------------
(* The hasher (checksum.js: calculateSHA1) *)

\* "sha1sum" or "nodejs"
method == "nodejs"

\* crypto's SHA-1 as 40 hexadecimal digits.  Data files hold "" or "a"; any
\* other content (a manifest, a report) gets a digest that differs from both.
Sha1Hex(data) ==
    CASE data = <<>> ->
           <<"d", "a", "3", "9", "a", "3", "e", "e", "5", "e", "6", "b", "4", "b", "0", "d", "3", "2", "5", "5", "b", "f", "e", "f", "9", "5", "6", "0", "1", "8", "9", "0", "a", "f", "d", "8", "0", "7", "0", "9">>
      [] data = <<"a">> ->
           <<"8", "6", "f", "7", "e", "4", "3", "7", "f", "a", "a", "5", "a", "7", "f", "c", "e", "1", "5", "d", "1", "d", "d", "c", "b", "9", "e", "a", "e", "a", "e", "a", "3", "7", "7", "6", "6", "7", "b", "8">>
      [] OTHER ->
           <<"e", "9", "d", "7", "1", "f", "5", "e", "e", "7", "c", "9", "2", "d", "6", "d", "c", "9", "e", "9", "2", "f", "f", "d", "a", "d", "1", "7", "b", "8", "b", "d", "4", "9", "4", "1", "8", "f", "9", "8">>

\* The line GNU sha1sum prints for a file: the digest, two blanks and the
\* name.  When the name holds a backslash or a line feed the line starts
\* with a backslash and the name is escaped.
NeedsEscape(filePath) == "\\" \in Chars(filePath) \/ "\n" \in Chars(filePath)

EscapeName(filePath) ==
    FlatMap([c \in Chars(filePath) |->
                IF c = "\\" THEN <<"\\", "\\">>
                ELSE IF c = "\n" THEN <<"\\", "n">> ELSE <<c>>], filePath)

Sha1sumOutput(filePath, data) ==
    (IF NeedsEscape(filePath) THEN <<"\\">> ELSE <<>>)
        \o Sha1Hex(data) \o <<" ", " ">> \o EscapeName(filePath) \o <<"\n">>

\* output.trim().split(/\s+/)[0]
FirstField(output) ==
    LET t == trim(output)
        blanks == {k \in DOMAIN t : t[k] \in WhiteSpace}
    IN  IF blanks = {} THEN t
        ELSE SubSeq(t, 1, (CHOOSE k \in blanks : \A j \in blanks : k <= j) - 1)

\* What reading the file at fullPath meets: a directory cannot be read as a
\* file; a file reads fine, or the read fails (the file vanished after the
\* probe, the permission was revoked).
ReadOutcomes(fullPath) ==
    IF DirExists(fullPath) THEN {"EISDIR"} ELSE {"ok", "ENOENT", "EACCES"}

DataAt(fullPath) ==
    IF fullPath \in DOMAIN content THEN content[fullPath]
    ELSE IF fullPath = sha1FilePath THEN manifestText.data
    ELSE IF fullPath \in DOMAIN reports THEN reports[fullPath].data
    ELSE <<>>

\* calculateSHA1(filePath, method) of checksum.js: what the awaited call
\* gives its caller.  "value": a fingerprint; "null": the error was caught
\* and logged inside; "throw": the returned promise rejected, which the try
\* around a bare `return new Promise` does not catch.
calculateSHA1(filePath, how, outcome) ==
    IF how = "sha1sum"
    THEN IF outcome = "ok"
         THEN [kind |-> "value",
               hash |-> substring(FirstField(Sha1sumOutput(filePath, DataAt(filePath))), 1, 11),
               code |-> <<>>]
         ELSE [kind |-> "null", hash |-> <<>>, code |-> <<>>]
    ELSE IF outcome = "ok"
         THEN [kind |-> "value", hash |-> substring(Sha1Hex(DataAt(filePath)), 0, HashLength),
               code |-> <<>>]
         ELSE [kind |-> "throw", hash |-> <<>>, code |-> outcome]

\* calculateSHA1 of the older __checksum.js: the read is awaited inside the
\* try, so every failure is caught and null returned.
calculateSHA1Awaited(filePath, how, outcome) ==
    IF outcome # "ok" THEN [kind |-> "null", hash |-> <<>>, code |-> <<>>]
    ELSE [kind |-> "value",
          hash |-> IF how = "sha1sum"
                   THEN substring(FirstField(Sha1sumOutput(filePath, DataAt(filePath))), 1, 11)
                   ELSE substring(Sha1Hex(DataAt(filePath)), 0, HashLength),
          code |-> <<>>]

----------------------------------------------------------------------------
(* Checksum mode (checksum.js, and the older __checksum.js) *)

ChecksumScripts == {"checksum", "checksum_old"}

\* await fs.access(fullPath): "ok", or the code of the error it throws.
Access(fullPath) ==
    IF DirExists(fullPath) \/ FileExists(fullPath) THEN "ok"
    ELSE IF \E k \in DOMAIN fullPath :
               fullPath[k] = "/" /\ FileExists(SubSeq(fullPath, 1, k - 1))
         THEN "ENOTDIR"
         ELSE "ENOENT"

\* error.message, shortened to the error's code.
ErrorMessage(code) == [k \in 1..Len(code) |-> SubSeq(code, k, k)]

MismatchLine(filePath, expected, actual) ==
    filePath \o <<" ", "(", "e", "x", "p", "e", "c", "t", "e", "d", " ">> \o expected \o <<",", " ", "g", "o", "t", " ">> \o actual \o <<")">>
ErrorLine(filePath, code) == filePath \o <<" ", "(", "e", "r", "r", "o", "r", ":", " ">> \o code \o <<")">>
HashFailedLine(filePath) == filePath \o <<" ", "(", "h", "a", "s", "h", " ", "c", "a", "l", "c", "u", "l", "a", "t", "i", "o", "n", " ", "f", "a", "i", "l", "e", "d", ")">>
NotFoundLine(filePath) == filePath \o <<" ", "(", "f", "i", "l", "e", " ", "n", "o", "t", " ", "f", "o", "u", "n", "d", ")">>

\* The pass with a catch block that records nothing.
CheckOneDropsErrors(entry, dir, outcome, lists) ==
    LET fullPath == PathJoin(dir, entry.filePath)
        actualHash == calculateSHA1(fullPath, method, outcome)
    IN  IF Access(fullPath) = "ok" /\ actualHash.kind = "value"
           /\ toLowerCase(actualHash.hash) # toLowerCase(entry.expectedHash)
        THEN [lists EXCEPT !.mismatches =
                 Append(@, MismatchLine(entry.filePath,
                                        toLowerCase(entry.expectedHash),
                                        toLowerCase(actualHash.hash)))]
        ELSE lists

\* The pass with a vanished file put in both lists: in missingFiles and,
\* as an error, in mismatches.
CheckOneInBothLists(entry, dir, outcome, lists) ==
    LET fullPath == PathJoin(dir, entry.filePath)
        probe == Access(fullPath)
        actualHash == calculateSHA1(fullPath, method, outcome)
        code == IF probe # "ok" THEN probe ELSE actualHash.code
    IN  IF probe = "ok" /\ actualHash.kind = "null"
        THEN [lists EXCEPT !.mismatches = Append(@, HashFailedLine(entry.filePath))]
        ELSE IF probe = "ok" /\ actualHash.kind = "value"
        THEN IF toLowerCase(actualHash.hash) # toLowerCase(entry.expectedHash)
             THEN [lists EXCEPT !.mismatches =
                      Append(@, MismatchLine(entry.filePath,
                                             toLowerCase(entry.expectedHash),
                                             toLowerCase(actualHash.hash)))]
             ELSE lists
        ELSE [mismatches |-> Append(lists.mismatches,
                                    ErrorLine(entry.filePath, ErrorMessage(code))),
              missingFiles |-> IF code = "ENOENT"
                               THEN Append(lists.missingFiles, entry.filePath)
                               ELSE lists.missingFiles]

\* One pass of checksum.js's for loop body over `entry`, the read meeting
\* `outcome`: the two lists as the pass leaves them.
CheckOne(entry, dir, outcome, lists) ==
    LET fullPath == PathJoin(dir, entry.filePath)
        probe == Access(fullPath)
        actualHash == calculateSHA1(fullPath, method, outcome)
        code == IF probe # "ok" THEN probe ELSE actualHash.code
    IN  IF probe = "ok" /\ actualHash.kind = "null"
        THEN [lists EXCEPT !.mismatches = Append(@, HashFailedLine(entry.filePath))]
        ELSE IF probe = "ok" /\ actualHash.kind = "value"
        THEN IF toLowerCase(actualHash.hash) # toLowerCase(entry.expectedHash)
             THEN [lists EXCEPT !.mismatches =
                      Append(@, MismatchLine(entry.filePath,
                                             toLowerCase(entry.expectedHash),
                                             toLowerCase(actualHash.hash)))]
             ELSE lists
        ELSE IF code = "ENOENT"
             THEN [lists EXCEPT !.missingFiles = Append(@, entry.filePath)]
             ELSE [lists EXCEPT !.mismatches =
                      Append(@, ErrorLine(entry.filePath, ErrorMessage(code)))]

\* The same pass in __checksum.js: one list, failedChecksums.
CheckOneOld(entry, dir, outcome, failed) ==
    LET fullPath == PathJoin(dir, entry.filePath)
        probe == Access(fullPath)
        actualHash == calculateSHA1Awaited(fullPath, method, outcome)
    IN  IF probe = "ENOENT" THEN Append(failed, NotFoundLine(entry.filePath))
        ELSE IF probe # "ok"
        THEN Append(failed, ErrorLine(entry.filePath, ErrorMessage(probe)))
        ELSE IF actualHash.kind = "null"
        THEN Append(failed, HashFailedLine(entry.filePath))
        ELSE IF toLowerCase(actualHash.hash) # toLowerCase(entry.expectedHash)
        THEN Append(failed, MismatchLine(entry.filePath,
                                         toLowerCase(entry.expectedHash),
                                         toLowerCase(actualHash.hash)))
        ELSE failed

\* The report as the bare entries, with no heading and no spacing line.
ReportLinesBare(mism, miss) == mism \o miss

\* reportLines of checksum.js
ReportLines(mism, miss) ==
    (IF mism # <<>> THEN <<<<"=", "=", "=", " ", "H", "A", "S", "H", " ", "M", "I", "S", "M", "A", "T", "C", "H", "E", "S", " ", "/", " ", "E", "R", "R", "O", "R", "S", " ", "=", "=", "=">>>> \o mism \o << <<>> >> ELSE <<>>)
      \o (IF miss # <<>> THEN <<<<"=", "=", "=", " ", "M", "I", "S", "S", "I", "N", "G", " ", "F", "I", "L", "E", "S", " ", "=", "=", "=">>>> \o miss ELSE <<>>)

----------------------------------------------------------------------------
(* The tree walk of the -i / --ignore script (checksum.js, third script) *)

RECURSIVE search(_, _)
RECURSIVE SearchItems(_, _, _)

\* The for loop of findConfigDirectories' search over items[k..].
SearchItems(currentDir, items, k) ==
    IF k > Len(items) THEN <<>>
    ELSE LET item == items[k]
             fullPath == PathJoin(currentDir, item.name)
         IN  (IF item.isDirectory
              THEN (IF toLowerCase(item.name) = <<"c", "o", "n", "f", "i", "g">>
                    THEN <<fullPath>> ELSE <<>>)
                     \o search(fullPath, <<>>)
              ELSE <<>>)
               \o SearchItems(currentDir, items, k + 1)

\* search(currentDir): a directory that cannot be read is skipped.
search(currentDir, configDirs) ==
    IF ReaddirFails(currentDir) THEN configDirs
    ELSE configDirs \o SearchItems(currentDir, Readdir(currentDir), 1)

findConfigDirectories(dir) == search(dir, <<>>)

\* resolvedFullPath.startsWith(path.resolve(excludeDir)) for some excludeDir
ShouldExclude(resolvedFullPath, dirs) ==
    \E k \in DOMAIN dirs :
        dirs[k] # <<>> /\ IsPrefix(PathResolve(TargetDir, dirs[k]), resolvedFullPath)

RECURSIVE getFileListUnguarded(_, _, _, _)
RECURSIVE WalkItemsUnguarded(_, _, _, _, _, _)

\* The for loop of this script's getFileList over items[k..]; st.threw once
\* a readdir below has thrown.
WalkItemsUnguarded(dir, baseDir, dirs, items, k, st) ==
    IF k > Len(items) \/ st.threw THEN st
    ELSE LET item == items[k]
             fullPath == PathJoin(dir, item.name)
             resolvedFullPath == PathResolve(TargetDir, fullPath)
             after ==
                 IF ShouldExclude(resolvedFullPath, dirs) THEN st
                 ELSE IF item.isDirectory
                 THEN LET sub == getFileListUnguarded(fullPath, baseDir, dirs, st.calls)
                      IN  [files |-> st.files \o sub.files, calls |-> sub.calls,
                          threw |-> sub.threw]
                 ELSE [st EXCEPT !.files =
                          Append(@, normalizePath(PathRelative(baseDir, fullPath)))]
         IN  WalkItemsUnguarded(dir, baseDir, dirs, items, k + 1, after)

\* getFileList(dir, baseDir, excludeDirs) of this script: readdir is not
\* guarded, its error ends the walk.
getFileListUnguarded(dir, baseDir, dirs, calls) ==
    IF ReaddirFails(dir)
    THEN [files |-> <<>>, calls |-> Append(calls, dir), threw |-> TRUE]
    ELSE WalkItemsUnguarded(dir, baseDir, dirs, Readdir(dir), 1,
                            [files |-> <<>>, calls |-> Append(calls, dir), threw |-> FALSE])

----------------------------------------------------------------------------
(* A run of a script: main() from its start to the process exit *)

NotExited == 0 - 1

\* The target directory argument is given when the manifest lies elsewhere;
\* without it targetDir defaults to the manifest's own directory.  The older
\* checksum script knows only the parent of its working directory.
targetDirArg == IF sha1Dir = TargetDir THEN <<>> ELSE TargetDir
targetDir ==
    IF script = "checksum_old" THEN parentDir
    ELSE IF targetDirArg # <<>> THEN PathResolve(sha1Dir, targetDirArg) ELSE sha1Dir

\* "files": files.js with -xd / -xf; "files_i": the script with -i.
FileListScripts == {"files", "files_i"}

NoProcess == pc \in {"idle", "done", "fatal", "interrupted"}

RunRecord(code, reportsAtExit) ==
    [script |-> script, exitCode |-> code, reports |-> reportsAtExit,
     end |-> IF code = 0 THEN "done" ELSE "fatal",
     missing |-> missing, extra |-> extra, mismatches |-> mismatches,
     missingFiles |-> missingFiles, failedChecksums |-> failedChecksums]

\* The process starts: main() is entered with fresh locals.
Launch(s) ==
    /\ NoProcess
    /\ s = "checksum_old" => DirExists(Cwd)
    /\ script' = s
    /\ pc' = "start"
    /\ exitCode' = NotExited
    /\ runs' = runs + 1
    /\ expectedFiles' = <<>>
    /\ entries' = <<>>
    /\ actualFiles' = <<>>
    /\ excludeDirs' = <<>>
    /\ excludedLog' = [dirs |-> <<>>, files |-> <<>>]
    /\ readdirCalls' = <<>>
    /\ missing' = <<>>
    /\ extra' = <<>>
    /\ i' = 0
    /\ mismatches' = <<>>
    /\ missingFiles' = <<>>
    /\ failedChecksums' = <<>>
    /\ probeLog' = <<>>
    /\ UNCHANGED <<stepVars, fsVars, argVars, history, globVars, hashVars, dispatchVars>>

StartFirstRun(s) == runs = 0 /\ Launch(s)

\* main's catch: console.error and process.exit(1).
Fatal ==
    /\ pc' = "fatal"
    /\ exitCode' = 1
    /\ history' = Append(history, RunRecord(1, reports))

\* main() returns and the process exits with status 0.
Exit0(reportsAtExit) ==
    /\ pc' = "done"
    /\ exitCode' = 0
    /\ history' = Append(history, RunRecord(0, reportsAtExit))

\* await fs.readFile(sha1FilePath, "utf8") and the parse that follows it;
\* in the -i script findConfigDirectories has run just before.
ReadManifest ==
    /\ pc = "start"
    /\ excludeDirs' = IF script = "files_i" /\ ignoreConfigFlag
                      THEN findConfigDirectories(targetDir) ELSE <<>>
    /\ IF ManifestExists
       THEN /\ expectedFiles' = IF script \in FileListScripts
                                THEN ParseExpectedFiles(manifestText.data) ELSE <<>>
            /\ entries' = IF script \in ChecksumScripts
                          THEN ParseEntries(manifestText.data) ELSE <<>>
            /\ pc' = "parsed"
            /\ UNCHANGED <<exitCode, history>>
       ELSE /\ Fatal
            /\ UNCHANGED <<expectedFiles, entries>>
    /\ UNCHANGED <<stepVars, fsVars, argVars, actualFiles, excludedLog, readdirCalls, missing,
                   extra, sumVars, script, runs, globVars, hashVars, dispatchVars>>

\* await getFileList(targetDir, targetDir, excludeRules, excludedLog), then
\* the missing / extra computation that follows it.
FilesWalk ==
    /\ pc = "parsed"
    /\ script = "files"
    /\ \E res \in {getFileList(targetDir, targetDir,
                   ExcludeRules(rawExcludeDirs, rawExcludeFiles, targetDir), EmptyLog)} :
           /\ actualFiles' = res.files
           /\ excludedLog' = [dirs |-> res.log.dirs, files |-> res.log.files]
           /\ readdirCalls' = res.log.calls
           /\ missing' = MissingOf(expectedFiles, res.files)
           /\ extra' = ExtraOf(expectedFiles, res.files)
    /\ pc' = "compared"
    /\ UNCHANGED <<stepVars, fsVars, argVars, sumVars, script, exitCode, expectedFiles,
                   entries, excludeDirs, runs, history, globVars, hashVars, dispatchVars>>

\* How fs.writeFile and fs.unlink of a report may go: "ok" or an error code.
WriteOutcomes == {"ok", "EACCES"}
UnlinkOutcomes(path) ==
    IF reports[path].exists THEN {"ok", "EACCES"} ELSE {"ENOENT", "EACCES"}

\* The unlink with no error let through, ENOENT thrown like the rest.
deleteFileStrict(outcome) == IF outcome = "ok" THEN "true" ELSE "throw"

\* deleteFileIfExists(filePath), the unlink meeting `outcome`: "true",
\* "false" (ENOENT), or "throw".  The checksum script's inline unlink
\* (try / catch, rethrow unless ENOENT) goes the same way.
deleteFileIfExists(outcome) ==
    IF outcome = "ok" THEN "true"
    ELSE IF outcome = "ENOENT" THEN "false"
    ELSE "throw"

NoIo == [op |-> "none", path |-> <<>>, error |-> "none"]

\* The operation the save-or-delete step performs on `path`.
SidecarOp(path, list, outcome) ==
    [op |-> IF list # <<>> THEN "writeFile" ELSE "unlink", path |-> path,
     error |-> outcome]
SidecarOutcomes(path, list) ==
    IF list # <<>> THEN WriteOutcomes ELSE UnlinkOutcomes(path)

\* The operation threw into main's catch.
Threw(io) ==
    IF io.op = "unlink" THEN deleteFileIfExists(io.error) = "throw"
    ELSE io.error # "ok"

\* if (list.length > 0) writeFile(path, list.join("\n"))
\* else deleteFileIfExists(path): unlink, ENOENT swallowed.
SaveOrDelete(rep, path, list) ==
    IF list # <<>> THEN [rep EXCEPT ![path] = File(Join(list, <<"\n">>))]
    ELSE [rep EXCEPT ![path] = NoFile]

\* The missing report of files.js; ioError: writeFile or unlink throws
\* (unlink: anything but ENOENT).
ReportMissing ==
    /\ pc = "compared"
    /\ script = "files"
    /\ \E outcome \in SidecarOutcomes(missingFilePath, missing) :
          /\ lastIo' = SidecarOp(missingFilePath, missing, outcome)
          /\ IF Threw(lastIo')
             THEN /\ Fatal
                  /\ UNCHANGED reports
             ELSE /\ reports' = SaveOrDelete(reports, missingFilePath, missing)
                  /\ pc' = "missingReported"
                  /\ UNCHANGED <<exitCode, history>>
    /\ UNCHANGED <<stepVars, tree, unreadable, content, manifestText, sha1FilePath, argVars,
                   walkVars, sumVars, script, expectedFiles, entries, runs, globVars, hashVars, dispatchVars>>

\* The extra report of files.js, then the end of main().
ReportExtra ==
    /\ pc = "missingReported"
    /\ script = "files"
    /\ \E outcome \in SidecarOutcomes(extraFilePath, extra) :
          /\ lastIo' = SidecarOp(extraFilePath, extra, outcome)
          /\ IF Threw(lastIo')
             THEN /\ Fatal
                  /\ UNCHANGED reports
             ELSE /\ reports' = SaveOrDelete(reports, extraFilePath, extra)
                  /\ Exit0(reports')
    /\ UNCHANGED <<stepVars, tree, unreadable, content, manifestText, sha1FilePath, argVars,
                   walkVars, sumVars, script, expectedFiles, entries, runs, globVars, hashVars, dispatchVars>>

\* The -i script: await getFileList(targetDir, targetDir, excludeDirs), whose
\* error reaches main's catch, then the missing / extra computation.
FilesWalkUnguarded ==
    /\ pc = "parsed"
    /\ script = "files_i"
    /\ \E res \in {getFileListUnguarded(targetDir, targetDir, excludeDirs, <<>>)} :
           /\ readdirCalls' = res.calls
           /\ IF res.threw
              THEN /\ Fatal
                   /\ UNCHANGED <<actualFiles, missing, extra>>
              ELSE /\ actualFiles' = res.files
                   /\ missing' = MissingOf(expectedFiles, res.files)
                   /\ extra' = ExtraOf(expectedFiles, res.files)
                   /\ pc' = "compared"
                   /\ UNCHANGED <<exitCode, history>>
    /\ UNCHANGED <<stepVars, fsVars, argVars, sumVars, script, expectedFiles, entries,
                   excludeDirs, excludedLog, runs, globVars, hashVars, dispatchVars>>

\* The -i script's "Save results": both lists are written, empty or not.
SaveResults ==
    /\ pc = "compared"
    /\ script = "files_i"
    /\ \E ioError \in {"none", "missing", "extra"} :
          LET first == [reports EXCEPT
                           ![missingFilePath] = File(Join(missing, <<"\n">>))]
              both == [first EXCEPT
                           ![extraFilePath] = File(Join(extra, <<"\n">>))]
          IN  CASE ioError = "missing" ->
                       /\ lastIo' = [op |-> "writeFile", path |-> missingFilePath,
                                     error |-> "EACCES"]
                       /\ Fatal
                       /\ UNCHANGED reports
                [] ioError = "extra" ->
                       /\ lastIo' = [op |-> "writeFile", path |-> extraFilePath,
                                     error |-> "EACCES"]
                       /\ reports' = first
                       /\ pc' = "fatal"
                       /\ exitCode' = 1
                       /\ history' = Append(history, RunRecord(1, first))
                [] OTHER ->
                       /\ lastIo' = [op |-> "writeFile", path |-> extraFilePath,
                                     error |-> "ok"]
                       /\ reports' = both
                       /\ Exit0(both)
    /\ UNCHANGED <<stepVars, tree, unreadable, content, manifestText, sha1FilePath, argVars,
                   walkVars, sumVars, script, expectedFiles, entries, runs, globVars, hashVars, dispatchVars>>

\* One pass of the checksum loop: entries[i], probed and hashed.  A file that
\* is there at the probe may vanish before the read.
CheckEntry ==
    /\ pc = "parsed"
    /\ script \in ChecksumScripts
    /\ i < Len(entries)
    /\ LET entry == entries[i + 1]
           fullPath == PathJoin(targetDir, entry.filePath)
           probe == Access(fullPath)
       IN  \E outcome \in (IF probe = "ok" THEN ReadOutcomes(fullPath) ELSE {"unread"}) :
              /\ IF script = "checksum"
                 THEN \E lists \in {CheckOne(entry, targetDir, outcome,
                                       [mismatches |-> mismatches,
                                        missingFiles |-> missingFiles])} :
                          /\ mismatches' = lists.mismatches
                          /\ missingFiles' = lists.missingFiles
                          /\ UNCHANGED failedChecksums
                 ELSE /\ failedChecksums' =
                            CheckOneOld(entry, targetDir, outcome, failedChecksums)
                      /\ UNCHANGED <<mismatches, missingFiles>>
              /\ tree' = IF outcome = "ENOENT" THEN tree \ {fullPath} ELSE tree
              /\ probeLog' = Append(probeLog,
                                    [filePath |-> entry.filePath, probe |-> probe,
                                     read |-> outcome])
    /\ i' = i + 1
    /\ UNCHANGED <<stepVars, unreadable, content, reports, manifestText, sha1FilePath, lastIo,
                   argVars, walkVars, runVars, globVars, hashVars, dispatchVars>>

\* After the loop: the report is written, or the stale one unlinked, and
\* main() ends.  The older script writes its one list whatever it holds.
WriteReport ==
    /\ pc = "parsed"
    /\ script \in ChecksumScripts
    /\ i = Len(entries)
    /\ \E outcome \in (IF script = "checksum"
                        THEN SidecarOutcomes(outputFilePath,
                                             ReportLines(mismatches, missingFiles))
                        ELSE WriteOutcomes) :
          /\ lastIo' = IF script = "checksum"
                       THEN SidecarOp(outputFilePath,
                                      ReportLines(mismatches, missingFiles), outcome)
                       ELSE [op |-> "writeFile", path |-> oldReportPath,
                             error |-> outcome]
          /\ IF Threw(lastIo')
             THEN /\ Fatal
                  /\ UNCHANGED reports
             ELSE /\ reports' =
                        IF script = "checksum"
                        THEN SaveOrDelete(reports, outputFilePath,
                                          ReportLines(mismatches, missingFiles))
                        ELSE [reports EXCEPT
                                 ![oldReportPath] = File(Join(failedChecksums, <<"\n">>))]
                  /\ Exit0(reports')
    /\ UNCHANGED <<stepVars, tree, unreadable, content, manifestText, sha1FilePath, argVars,
                   walkVars, sumVars, script, expectedFiles, entries, runs, globVars, hashVars, dispatchVars>>

\* The handler with its message only: the signal is noted and the run goes on.
InterruptLogsOnly ==
    /\ script \in ChecksumScripts
    /\ pc \in {"start", "parsed"}
    /\ \A k \in DOMAIN history : history[k].end # "interrupted"
    /\ history' = Append(history, [RunRecord(0, reports) EXCEPT !.end = "interrupted"])
    /\ UNCHANGED <<stepVars, fsVars, argVars, walkVars, sumVars, script, pc, exitCode,
                   expectedFiles, entries, runs, globVars, hashVars, dispatchVars>>

\* process.on("SIGINT"): "Verification interrupted by user", process.exit(0).
Interrupt ==
    /\ script \in ChecksumScripts
    /\ pc \in {"start", "parsed"}
    /\ pc' = "interrupted"
    /\ exitCode' = 0
    /\ history' = Append(history, [RunRecord(0, reports) EXCEPT !.end = "interrupted"])
    /\ UNCHANGED <<stepVars, fsVars, argVars, walkVars, sumVars, script, expectedFiles,
                   entries, runs, globVars, hashVars, dispatchVars>>

----------------------------------------------------------------------------
(* WalkSpec: one file-list run over every small tree, manifest and rule set *)

MaxEntries == 2

\* The fingerprint of an empty file (crypto's SHA-1, first 10 hex digits).
FingerprintOfEmpty == <<"d", "a", "3", "9", "a", "3", "e", "e", "5", "e">>

ManifestLine(fingerprint, path) == fingerprint \o <<" ">> \o path

\* The trees of WalkSpec: a file, a directory, and a directory inside it.
WalkTreePaths == {Universe[k].path : k \in 1..5}

WalkManifestPaths == { <<"a">>, <<"d", "/", "a">>, <<"x">> }

WalkDirPatterns ==
    { <<>>, << <<"D">> >>, << <<"e">> >>, << <<"d", "/", "e">> >>,
      << <<"d", "/", "*">> >> }

WalkFilePatterns ==
    { <<>>, << <<"A">> >>, << <<"d", "/", "a">> >>, << <<"*">> >> }

ManifestOf(lines) == File(Join(lines, <<"\n">>))

IdleRun ==
    /\ script = "none"
    /\ pc = "idle"
    /\ exitCode = NotExited
    /\ expectedFiles = <<>>
    /\ entries = <<>>
    /\ actualFiles = <<>>
    /\ excludeDirs = <<>>
    /\ excludedLog = [dirs |-> <<>>, files |-> <<>>]
    /\ readdirCalls = <<>>
    /\ missing = <<>>
    /\ extra = <<>>
    /\ i = 0
    /\ mismatches = <<>>
    /\ missingFiles = <<>>
    /\ failedChecksums = <<>>
    /\ probeLog = <<>>
    /\ runs = 0
    /\ history = <<>>

IdleGlob == glob = <<>> /\ subject = <<>> /\ tested = "idle"

IdleHash == hashPath = <<>> /\ hashMethod = "none" /\ hashLog = <<>>

NoOptions == [file |-> <<>>, mode |-> "null", help |-> FALSE]
NoChild == [script |-> "none", args |-> <<>>]

IdleSteps == walkCalls = <<>> /\ inFlight = {} /\ loopPc = "head"

IdleDispatch ==
    argv = <<>> /\ options = NoOptions /\ child = NoChild /\ verifyPc = "idle"

WalkInit ==
    /\ IdleRun
    /\ IdleGlob
    /\ IdleHash
    /\ IdleDispatch
    /\ lastIo = NoIo
    /\ IdleSteps
    /\ ignoreConfigFlag = FALSE
    /\ sha1FilePath \in {PathJoin(TargetDir, ManifestName), PathJoin(OtherDir, ManifestName)}
    /\ reports = [p \in Range(ReportPaths) |-> NoFile]
    /\ manifestText \in
         {ManifestOf([k \in DOMAIN paths |-> ManifestLine(FingerprintOfEmpty, paths[k])]) :
             paths \in SeqsUpTo(WalkManifestPaths, MaxEntries)}
    /\ tree \in {t \in SUBSET WalkTreePaths : ParentClosed(t)}
    /\ content = [p \in tree \cap UniverseFiles |-> <<>>]
    /\ unreadable \in {{}} \cup {{d} : d \in (tree \cap UniverseDirs) \cup {TargetDir}}
    /\ rawExcludeDirs \in WalkDirPatterns
    /\ rawExcludeFiles \in WalkFilePatterns

WalkNext ==
    \/ StartFirstRun("files")
    \/ ReadManifest
    \/ FilesWalk
    \/ ReportMissing
    \/ ReportExtra

WalkSpec == WalkInit /\ [][WalkNext]_vars

----------------------------------------------------------------------------
(* ChecksumSpec: one checksum run over small trees, contents and manifests *)

\* The fingerprint of a file holding "a".
FingerprintOfA == <<"8", "6", "f", "7", "e", "4", "3", "7", "f", "a">>

ChecksumTreePaths ==
    { <<"/", "t", "/", "a">>, <<"/", "t", "/", "d">>, <<"/", "t", "/", "d", "/", "a">> }

ChecksumContents == { <<>>, <<"a">> }

\* Manifest lines: a file with its fingerprint in upper case, a path that
\* is absent, a path through a regular file, a directory, and a file below
\* a directory.
ChecksumManifestLines ==
    { ManifestLine(<<"D", "A", "3", "9", "A", "3", "E", "E", "5", "E">>, <<"a">>),
      ManifestLine(FingerprintOfEmpty, <<"x">>),
      ManifestLine(FingerprintOfEmpty, <<"a", "/", "x">>),
      ManifestLine(FingerprintOfEmpty, <<"d">>),
      ManifestLine(FingerprintOfA, <<"d", "/", "a">>) }

StaleReport == File(<<"o", "l", "d">>)

\* The reports a run may find left behind: the older script's lies in Cwd
\* and needs that directory.
PriorReports(t, paths) ==
    { r \in [Range(ReportPaths) -> {NoFile, StaleReport}] :
        /\ \A q \in Range(ReportPaths) \ paths : r[q] = NoFile
        /\ r[oldReportPath].exists => Cwd \in t }

ChecksumInit ==
    /\ tree \in {t \in SUBSET ChecksumTreePaths : ParentClosed(t)}
    /\ unreadable = {}
    /\ content \in [tree \cap UniverseFiles -> ChecksumContents]
    /\ sha1FilePath = PathJoin(OtherDir, ManifestName)
    /\ reports \in PriorReports(tree, {outputFilePath, oldReportPath})
    /\ manifestText \in
         {NoFile} \cup {ManifestOf(lines) : lines \in SeqsUpTo(ChecksumManifestLines, MaxEntries)}
    /\ rawExcludeDirs = <<>>
    /\ rawExcludeFiles = <<>>
    /\ ignoreConfigFlag = FALSE
    /\ IdleRun
    /\ IdleGlob
    /\ IdleHash
    /\ IdleDispatch
    /\ lastIo = NoIo
    /\ IdleSteps

ChecksumNext ==
    \/ StartFirstRun("checksum")
    \/ StartFirstRun("checksum_old")
    \/ ReadManifest
    \/ CheckEntry
    \/ WriteReport
    \/ Interrupt

ChecksumSpec == ChecksumInit /\ [][ChecksumNext]_vars

----------------------------------------------------------------------------
(* Spec: runs of any of the scripts, one after another, on one file system *)

MaxRuns == 2

StartNextRun(s) == runs > 0 /\ runs < MaxRuns /\ Launch(s)

Scripts == FileListScripts \cup ChecksumScripts

RunManifestLines ==
    { ManifestLine(FingerprintOfEmpty, <<"a">>),
      ManifestLine(FingerprintOfEmpty, <<"x">>) }

Init ==
    /\ tree \in {t \in SUBSET ChecksumTreePaths : ParentClosed(t)}
    /\ unreadable \in {{}, {TargetDir}}
    /\ content = [p \in tree \cap UniverseFiles |-> <<>>]
    /\ sha1FilePath \in {PathJoin(TargetDir, ManifestName), PathJoin(OtherDir, ManifestName)}
    /\ reports \in {r \in PriorReports(tree, Range(ReportPaths)) :
                       \A p, q \in Range(ReportPaths) :
                           r[p].exists /\ ~r[q].exists => q = oldReportPath}
    /\ manifestText \in
         {NoFile} \cup {ManifestOf(lines) : lines \in SeqsUpTo(RunManifestLines, MaxEntries)}
    /\ rawExcludeDirs \in { <<>>, << <<"D">> >> }
    /\ rawExcludeFiles = <<>>
    /\ ignoreConfigFlag = TRUE
    /\ IdleRun
    /\ IdleGlob
    /\ IdleHash
    /\ IdleDispatch
    /\ lastIo = NoIo
    /\ IdleSteps

Next ==
    \/ \E s \in Scripts : StartFirstRun(s)
    \/ \E s \in Scripts : StartNextRun(s)
    \/ ReadManifest
    \/ FilesWalk
    \/ ReportMissing
    \/ ReportExtra
    \/ FilesWalkUnguarded
    \/ SaveResults
    \/ CheckEntry
    \/ WriteReport
    \/ Interrupt

Spec == Init /\ [][Next]_vars

\* OneRunSpec: a single run of any of the scripts, from the same file systems.
OneRunNext ==
    \/ \E s \in Scripts : StartFirstRun(s)
    \/ ReadManifest
    \/ FilesWalk
    \/ ReportMissing
    \/ ReportExtra
    \/ FilesWalkUnguarded
    \/ SaveResults
    \/ CheckEntry
    \/ WriteReport
    \/ Interrupt

OneRunSpec == Init /\ [][OneRunNext]_vars

----------------------------------------------------------------------------
(* TreeSpec: the walks of both file-list scripts over trees with sibling
   directories, among them one named Config *)

TreeDirPatterns ==
    { <<>>, << <<"d">> >>, << <<"C", "o", "n", "f", "i", "g", "*">> >>,
      << <<"d", "\\", "e">> >>,
      << <<"*">> >> }

TreeFilePatterns == { <<>>, << <<"a">> >>, << <<"d", "/", "*">> >>, << <<"*">> >> }

TreeInit ==
    /\ IdleRun
    /\ IdleGlob
    /\ IdleHash
    /\ IdleDispatch
    /\ lastIo = NoIo
    /\ IdleSteps
    /\ sha1FilePath = PathJoin(OtherDir, ManifestName)
    /\ reports = [q \in Range(ReportPaths) |-> NoFile]
    /\ manifestText = ManifestOf(<<>>)
    /\ tree \in {t \in SUBSET UniversePaths : ParentClosed(t)}
    /\ content = [f \in tree \cap UniverseFiles |-> <<>>]
    /\ unreadable \in {{}} \cup {{d} : d \in tree \cap {<<"/", "t", "/", "d">>}}
    /\ ignoreConfigFlag \in BOOLEAN
    /\ rawExcludeDirs \in IF ignoreConfigFlag THEN {<<>>} ELSE TreeDirPatterns
    /\ rawExcludeFiles \in IF ignoreConfigFlag THEN {<<>>} ELSE TreeFilePatterns

TreeNext ==
    \/ \E s \in FileListScripts : StartFirstRun(s)
    \/ ReadManifest
    \/ FilesWalk
    \/ FilesWalkUnguarded

TreeSpec == TreeInit /\ [][TreeNext]_vars

----------------------------------------------------------------------------
(* StepSpec: the entry loop and the walk, from one await to the next *)

\* A call of getFileList that has not yet read its directory.
NewCall == [state |-> "call", k |-> 0, files |-> <<>>]

\* The file of the entry the loop stands at.
EntryPath == PathJoin(targetDir, entries[i + 1].filePath)

\* for (let i ...): await fs.access(fullPath) is begun.
BeginAccess ==
    /\ pc = "parsed"
    /\ script = "checksum"
    /\ loopPc = "head"
    /\ i < Len(entries)
    /\ inFlight' = inFlight \cup {[op |-> "access", target |-> EntryPath]}
    /\ loopPc' = "probing"
    /\ UNCHANGED <<fsVars, argVars, walkVars, sumVars, runVars, globVars, hashVars,
                   dispatchVars, walkCalls>>

\* fs.access settles: the loop goes on to the hash, or the catch classifies
\* the entry and the loop returns to its head.
EndAccess ==
    /\ pc = "parsed"
    /\ loopPc = "probing"
    /\ inFlight' = inFlight \ {[op |-> "access", target |-> EntryPath]}
    /\ IF Access(EntryPath) = "ok"
       THEN /\ loopPc' = "probed"
            /\ UNCHANGED sumVars
       ELSE /\ \E lists \in {CheckOne(entries[i + 1], targetDir, "unread",
                                      [mismatches |-> mismatches,
                                       missingFiles |-> missingFiles])} :
                  /\ mismatches' = lists.mismatches
                  /\ missingFiles' = lists.missingFiles
            /\ probeLog' = Append(probeLog,
                                  [filePath |-> entries[i + 1].filePath,
                                   probe |-> Access(EntryPath), read |-> "unread"])
            /\ i' = i + 1
            /\ loopPc' = "head"
            /\ UNCHANGED failedChecksums
    /\ UNCHANGED <<fsVars, argVars, walkVars, runVars, globVars, hashVars,
                   dispatchVars, walkCalls>>

\* await calculateSHA1(fullPath, method): the read stream is created.
BeginHash ==
    /\ pc = "parsed"
    /\ loopPc = "probed"
    /\ inFlight' = inFlight \cup {[op |-> "hash", target |-> EntryPath]}
    /\ loopPc' = "hashing"
    /\ UNCHANGED <<fsVars, argVars, walkVars, sumVars, runVars, globVars, hashVars,
                   dispatchVars, walkCalls>>

\* The stream ends or fails: the promise settles, the entry is classified
\* and the loop returns to its head.
EndHash ==
    /\ pc = "parsed"
    /\ loopPc = "hashing"
    /\ \E outcome \in ReadOutcomes(EntryPath) :
          /\ \E lists \in {CheckOne(entries[i + 1], targetDir, outcome,
                                    [mismatches |-> mismatches,
                                     missingFiles |-> missingFiles])} :
                /\ mismatches' = lists.mismatches
                /\ missingFiles' = lists.missingFiles
          /\ tree' = IF outcome = "ENOENT" THEN tree \ {EntryPath} ELSE tree
          /\ probeLog' = Append(probeLog,
                                [filePath |-> entries[i + 1].filePath,
                                 probe |-> "ok", read |-> outcome])
    /\ inFlight' = inFlight \ {[op |-> "hash", target |-> EntryPath]}
    /\ i' = i + 1
    /\ loopPc' = "head"
    /\ UNCHANGED <<unreadable, content, reports, manifestText, sha1FilePath, lastIo,
                   argVars, walkVars, failedChecksums, runVars, globVars, hashVars,
                   dispatchVars, walkCalls>>

\* main: await getFileList(targetDir, targetDir, excludeRules, excludedLog)
CallWalk ==
    /\ pc = "parsed"
    /\ script = "files"
    /\ walkCalls = <<>>
    /\ walkCalls' = (targetDir :> NewCall)
    /\ UNCHANGED <<fsVars, argVars, walkVars, sumVars, runVars, globVars, hashVars,
                   dispatchVars, inFlight, loopPc>>

\* getFileList(dir): await readdir(dir, { withFileTypes: true }) is begun.
BeginReaddir(dir) ==
    /\ pc = "parsed"
    /\ dir \in DOMAIN walkCalls
    /\ walkCalls[dir].state = "call"
    /\ walkCalls' = [walkCalls EXCEPT ![dir].state = "reading"]
    /\ inFlight' = inFlight \cup {[op |-> "readdir", target |-> dir]}
    /\ readdirCalls' = Append(readdirCalls, dir)
    /\ UNCHANGED <<fsVars, argVars, actualFiles, excludeDirs, excludedLog, missing,
                   extra, sumVars, runVars, globVars, hashVars, dispatchVars, loopPc>>

\* readdir settles: the loop over the items starts, or the catch logs the
\* error and the call returns no file.
EndReaddir(dir) ==
    /\ pc = "parsed"
    /\ dir \in DOMAIN walkCalls
    /\ walkCalls[dir].state = "reading"
    /\ walkCalls' = IF ReaddirFails(dir)
                    THEN [walkCalls EXCEPT ![dir].state = "done"]
                    ELSE [walkCalls EXCEPT ![dir].state = "loop", ![dir].k = 1]
    /\ inFlight' = inFlight \ {[op |-> "readdir", target |-> dir]}
    /\ UNCHANGED <<fsVars, argVars, walkVars, sumVars, runVars, globVars, hashVars,
                   dispatchVars, loopPc>>

\* One item of the for loop with the call on a subdirectory started and not
\* awaited: the loop goes on to the next item at once.
VisitItemNoAwait(dir) ==
    /\ pc = "parsed"
    /\ dir \in DOMAIN walkCalls
    /\ walkCalls[dir].state = "loop"
    /\ walkCalls[dir].k <= Len(Readdir(dir))
    /\ LET item == Readdir(dir)[walkCalls[dir].k]
           fullPath == PathJoin(dir, item.name)
           normalizedFullPath == normalizePath(fullPath)
           relativePath == normalizePath(PathRelative(targetDir, fullPath))
           rules == ExcludeRules(rawExcludeDirs, rawExcludeFiles, targetDir)
       IN  IF item.isDirectory
           THEN IF IsExcludedDir(rules, item.name, normalizedFullPath)
                THEN /\ excludedLog' = [excludedLog EXCEPT !.dirs = Append(@, relativePath)]
                     /\ walkCalls' = [walkCalls EXCEPT ![dir].k = @ + 1]
                ELSE /\ walkCalls' = [walkCalls EXCEPT ![dir].k = @ + 1]
                                        @@ (fullPath :> NewCall)
                     /\ UNCHANGED excludedLog
           ELSE IF IsExcludedFile(rules, item.name, normalizedFullPath)
                THEN /\ excludedLog' = [excludedLog EXCEPT !.files = Append(@, relativePath)]
                     /\ walkCalls' = [walkCalls EXCEPT ![dir].k = @ + 1]
                ELSE /\ walkCalls' = [walkCalls EXCEPT ![dir].files = Append(@, relativePath),
                                                       ![dir].k = @ + 1]
                     /\ UNCHANGED excludedLog
    /\ UNCHANGED <<fsVars, argVars, actualFiles, excludeDirs, readdirCalls, missing,
                   extra, sumVars, runVars, globVars, hashVars, dispatchVars, inFlight,
                   loopPc>>

\* One item of the for loop, up to its continue, its push, or the await of
\* the call on a subdirectory.
VisitItem(dir) ==
    /\ pc = "parsed"
    /\ dir \in DOMAIN walkCalls
    /\ walkCalls[dir].state = "loop"
    /\ walkCalls[dir].k <= Len(Readdir(dir))
    /\ LET item == Readdir(dir)[walkCalls[dir].k]
           fullPath == PathJoin(dir, item.name)
           normalizedFullPath == normalizePath(fullPath)
           relativePath == normalizePath(PathRelative(targetDir, fullPath))
           rules == ExcludeRules(rawExcludeDirs, rawExcludeFiles, targetDir)
       IN  IF item.isDirectory
           THEN IF IsExcludedDir(rules, item.name, normalizedFullPath)
                THEN /\ excludedLog' = [excludedLog EXCEPT !.dirs = Append(@, relativePath)]
                     /\ walkCalls' = [walkCalls EXCEPT ![dir].k = @ + 1]
                ELSE /\ walkCalls' = [walkCalls EXCEPT ![dir].state = "waiting"]
                                        @@ (fullPath :> NewCall)
                     /\ UNCHANGED excludedLog
           ELSE IF IsExcludedFile(rules, item.name, normalizedFullPath)
                THEN /\ excludedLog' = [excludedLog EXCEPT !.files = Append(@, relativePath)]
                     /\ walkCalls' = [walkCalls EXCEPT ![dir].k = @ + 1]
                ELSE /\ walkCalls' = [walkCalls EXCEPT ![dir].files = Append(@, relativePath),
                                                       ![dir].k = @ + 1]
                     /\ UNCHANGED excludedLog
    /\ UNCHANGED <<fsVars, argVars, actualFiles, excludeDirs, readdirCalls, missing,
                   extra, sumVars, runVars, globVars, hashVars, dispatchVars, inFlight,
                   loopPc>>

\* files = files.concat(await getFileList(fullPath, ...)): the awaited call
\* has returned.
Resume(dir) ==
    /\ pc = "parsed"
    /\ dir \in DOMAIN walkCalls
    /\ walkCalls[dir].state = "waiting"
    /\ LET sub == PathJoin(dir, Readdir(dir)[walkCalls[dir].k].name)
       IN  /\ walkCalls[sub].state = "done"
           /\ walkCalls' = [walkCalls EXCEPT ![dir].files = @ \o walkCalls[sub].files,
                                             ![dir].k = @ + 1,
                                             ![dir].state = "loop"]
    /\ UNCHANGED <<fsVars, argVars, walkVars, sumVars, runVars, globVars, hashVars,
                   dispatchVars, inFlight, loopPc>>

\* return files, after the last item.
Return(dir) ==
    /\ pc = "parsed"
    /\ dir \in DOMAIN walkCalls
    /\ walkCalls[dir].state = "loop"
    /\ walkCalls[dir].k > Len(Readdir(dir))
    /\ walkCalls' = [walkCalls EXCEPT ![dir].state = "done"]
    /\ UNCHANGED <<fsVars, argVars, walkVars, sumVars, runVars, globVars, hashVars,
                   dispatchVars, inFlight, loopPc>>

\* main, once the call on the target directory has returned: the missing /
\* extra computation.
Compare ==
    /\ pc = "parsed"
    /\ targetDir \in DOMAIN walkCalls
    /\ walkCalls[targetDir].state = "done"
    /\ actualFiles' = walkCalls[targetDir].files
    /\ missing' = MissingOf(expectedFiles, walkCalls[targetDir].files)
    /\ extra' = ExtraOf(expectedFiles, walkCalls[targetDir].files)
    /\ pc' = "compared"
    /\ UNCHANGED <<fsVars, argVars, excludeDirs, excludedLog, readdirCalls, sumVars,
                   script, exitCode, expectedFiles, entries, runs, history, globVars,
                   hashVars, dispatchVars, stepVars>>

\* The trees of StepSpec: files and directories at two levels and a
\* directory at the third, with a sibling directory beside them.
StepTreePaths == {Universe[k].path : k \in 1..7}

StepManifests ==
    { <<ManifestLine(FingerprintOfEmpty, <<"a">>),
        ManifestLine(FingerprintOfEmpty, <<"d", "/", "a">>)>>,
      <<ManifestLine(FingerprintOfEmpty, <<"d">>),
        ManifestLine(FingerprintOfEmpty, <<"a">>)>> }

StepDirPatterns == { <<>>, << <<"C", "o", "n", "f", "i", "g">> >>, << <<"d", "/", "e">> >> }
StepFilePatterns == { <<>>, << <<"a">> >> }

StepInit ==
    /\ IdleRun
    /\ IdleGlob
    /\ IdleHash
    /\ IdleDispatch
    /\ IdleSteps
    /\ lastIo = NoIo
    /\ sha1FilePath = PathJoin(OtherDir, ManifestName)
    /\ reports = [q \in Range(ReportPaths) |-> NoFile]
    /\ ignoreConfigFlag = FALSE
    /\ tree \in {t \in SUBSET StepTreePaths : ParentClosed(t)}
    /\ content = [f \in tree \cap UniverseFiles |-> <<>>]
    /\ unreadable \in {{}} \cup {{d} : d \in tree \cap {Universe[2].path}}
    /\ manifestText \in {ManifestOf(lines) : lines \in StepManifests}
    /\ rawExcludeDirs \in StepDirPatterns
    /\ rawExcludeFiles \in StepFilePatterns

StepNext ==
    \/ StartFirstRun("checksum")
    \/ StartFirstRun("files")
    \/ ReadManifest
    \/ BeginAccess
    \/ EndAccess
    \/ BeginHash
    \/ EndHash
    \/ CallWalk
    \/ \E dir \in UniverseDirs \cup {TargetDir} :
          \/ BeginReaddir(dir)
          \/ EndReaddir(dir)
          \/ VisitItem(dir)
          \/ Resume(dir)
          \/ Return(dir)
    \/ Compare

StepSpec == StepInit /\ [][StepNext]_vars

----------------------------------------------------------------------------
(* ParseSpec: the manifest parse of each script over texts of odd lines *)

MaxLines == 2

Str10 == FingerprintOfEmpty
UpperStr10 == <<"D", "A", "3", "9", "A", "3", "E", "E", "5", "E">>

\* Lines around the length threshold: blank, whitespace only, ten and eleven
\* characters with and without a trailing blank, an upper-case fingerprint,
\* a separator that is no blank, backslashes, leading blanks and a trailing
\* carriage return, and a path with blanks inside.
ParseLines ==
    { <<>>,
      <<" ", "\t">>,
      Str10,
      Str10 \o <<" ">>,
      Str10 \o <<"x">>,
      UpperStr10 \o <<" ", "a">>,
      Str10 \o <<"*", "d", "\\", "a", " ">>,
      <<" ">> \o Str10 \o <<" ", "a", "\r">>,
      Str10 \o <<" ", " ", "a", " ", "b">> }

ParseInit ==
    /\ tree = {Cwd}
    /\ unreadable = {}
    /\ content = [f \in {} |-> <<>>]
    /\ sha1FilePath = PathJoin(OtherDir, ManifestName)
    /\ reports = [q \in Range(ReportPaths) |-> NoFile]
    /\ rawExcludeDirs = <<>>
    /\ rawExcludeFiles = <<>>
    /\ ignoreConfigFlag = FALSE
    /\ IdleRun
    /\ IdleGlob
    /\ IdleHash
    /\ IdleDispatch
    /\ lastIo = NoIo
    /\ IdleSteps
    /\ manifestText \in {ManifestOf(lines) : lines \in SeqsUpTo(ParseLines, MaxLines)}

ParseNext ==
    \/ \E s \in Scripts : StartFirstRun(s)
    \/ ReadManifest

ParseSpec == ParseInit /\ [][ParseNext]_vars

----------------------------------------------------------------------------
(* HashSpec: calculateSHA1 called on small files with either method *)

MaxCalls == 2

\* A plain path, and a file whose name holds a backslash.
HashPaths ==
    { <<"/", "t", "/", "a">>, <<"/", "t", "/", "d", "\\", "a">> }

HashContents == ChecksumContents \cup { <<"b">> }

HashMethods == {"nodejs", "sha1sum"}

HashInit ==
    /\ tree = {}
    /\ unreadable = {}
    /\ sha1FilePath = PathJoin(OtherDir, ManifestName)
    /\ reports = [q \in Range(ReportPaths) |-> NoFile]
    /\ manifestText = NoFile
    /\ rawExcludeDirs = <<>>
    /\ rawExcludeFiles = <<>>
    /\ ignoreConfigFlag = FALSE
    /\ IdleRun
    /\ IdleGlob
    /\ IdleDispatch
    /\ lastIo = NoIo
    /\ IdleSteps
    /\ hashLog = <<>>
    /\ content \in [HashPaths -> HashContents]
    /\ hashPath \in HashPaths
    /\ hashMethod \in HashMethods

\* await calculateSHA1(fullPath, method), in checksum.js or in the older
\* __checksum.js.
Hash(s) ==
    /\ hashMethod \in HashMethods
    /\ Len(hashLog) < MaxCalls
    /\ \E outcome \in ReadOutcomes(hashPath) :
           hashLog' = Append(hashLog,
               [script |-> s,
                result |-> IF s = "checksum"
                           THEN calculateSHA1(hashPath, hashMethod, outcome)
                           ELSE calculateSHA1Awaited(hashPath, hashMethod, outcome)])
    /\ UNCHANGED <<stepVars, fsVars, argVars, walkVars, sumVars, runVars, globVars,
                   hashPath, hashMethod, dispatchVars>>

HashNext == \E s \in ChecksumScripts : Hash(s)

HashSpec == HashInit /\ [][HashNext]_vars

----------------------------------------------------------------------------
(* DispatchSpec: the verify command (parseArgs, main, runScript) *)

MaxArgs == 3

FilesFlags == { <<"-", "f">>, <<"-", "-", "f", "i", "l", "e", "s">> }
ChecksumFlags == { <<"-", "c">>, <<"-", "-", "c", "h", "e", "c", "k", "s", "u", "m">> }
HelpFlags == { <<"-", "h">>, <<"-", "-", "h", "e", "l", "p">> }

\* args[i + 1] && !args[i + 1].startsWith("-"), with k the 1-based index
\* of args[i + 1].
TakesFile(args, k) == k <= Len(args) /\ args[k] # <<>> /\ args[k][1] # "-"

RECURSIVE parseArgs(_, _, _)
\* parseArgs' loop from args[k] on; a help flag ends the process at once.
parseArgs(args, k, opts) ==
    IF k > Len(args) THEN opts
    ELSE IF args[k] \in FilesFlags \cup ChecksumFlags
    THEN LET mode == IF args[k] \in FilesFlags THEN "files" ELSE "checksum"
         IN  IF TakesFile(args, k + 1)
             THEN parseArgs(args, k + 2, [opts EXCEPT !.mode = mode, !.file = args[k + 1]])
             ELSE parseArgs(args, k + 1, [opts EXCEPT !.mode = mode])
    ELSE IF args[k] \in HelpFlags THEN [opts EXCEPT !.help = TRUE]
    ELSE parseArgs(args, k + 1, opts)

\* main of the verify command, up to the child it spawns or the exit it
\* takes before that.
Verify ==
    /\ verifyPc = "start"
    /\ \E o \in {parseArgs(argv, 1, NoOptions)} :
          IF o.help
          THEN verifyPc' = "exit0" /\ UNCHANGED <<options, child>>
          ELSE IF o.file = <<>> \/ ~(DirExists(o.file) \/ FileExists(o.file))
          THEN verifyPc' = "exit1" /\ options' = o /\ UNCHANGED child
          ELSE /\ options' = [o EXCEPT !.mode = IF @ = "null" THEN "files" ELSE @]
               /\ child' = [script |-> IF options'.mode = "files"
                                       THEN "files.js" ELSE "checksum.js",
                            args |-> <<o.file>>]
               /\ verifyPc' = "awaiting"
    /\ UNCHANGED <<stepVars, fsVars, argVars, walkVars, sumVars, runVars, globVars, hashVars, argv>>

\* child.on("close"): status 0 resolves and main returns; any other status
\* rejects and main's catch exits with status 1.
ChildClose ==
    /\ verifyPc = "awaiting"
    /\ \E code \in {0, 1} : verifyPc' = IF code = 0 THEN "exit0" ELSE "exit1"
    /\ UNCHANGED <<stepVars, fsVars, argVars, walkVars, sumVars, runVars, globVars, hashVars,
                   argv, options, child>>

\* process.on("SIGINT") of the verify command: process.exit(0).
VerifyInterrupt ==
    /\ verifyPc = "awaiting"
    /\ verifyPc' = "interrupted"
    /\ UNCHANGED <<stepVars, fsVars, argVars, walkVars, sumVars, runVars, globVars, hashVars,
                   argv, options, child>>

ArgTokens ==
    FilesFlags \cup ChecksumFlags \cup
        { <<"-", "h">>, <<"-", "x", "d">>, <<"a">>, TargetDir,
          PathJoin(OtherDir, ManifestName) }

\* The command lines of the README: manifest, target directory, mode, and
\* exclusion patterns.
ReadmeCommands ==
    { <<PathJoin(OtherDir, ManifestName), TargetDir, mode>> \o rest :
        mode \in { <<"-", "-", "f", "i", "l", "e", "s">>,
                   <<"-", "-", "c", "h", "e", "c", "k", "s", "u", "m">> },
        rest \in { <<>>, << <<"-", "x", "d">>, <<"a">> >>,
                   << <<"-", "x", "d">>, <<"a">>, <<"-", "x", "f">>, <<"a">> >> } }

DispatchInit ==
    /\ tree = {}
    /\ unreadable = {}
    /\ content = <<>>
    /\ sha1FilePath = PathJoin(OtherDir, ManifestName)
    /\ reports = [q \in Range(ReportPaths) |-> NoFile]
    /\ rawExcludeDirs = <<>>
    /\ rawExcludeFiles = <<>>
    /\ ignoreConfigFlag = FALSE
    /\ IdleRun
    /\ IdleGlob
    /\ IdleHash
    /\ lastIo = NoIo
    /\ IdleSteps
    /\ options = NoOptions
    /\ child = NoChild
    /\ verifyPc = "start"
    /\ manifestText \in {NoFile, ManifestOf(<<>>)}
    /\ argv \in SeqsUpTo(ArgTokens, MaxArgs) \cup ReadmeCommands

DispatchNext ==
    \/ Verify
    \/ ChildClose
    \/ VerifyInterrupt

DispatchSpec == DispatchInit /\ [][DispatchNext]_vars

----------------------------------------------------------------------------
(* GlobSpec: globToRegex applied to bounded patterns and strings *)

GlobAlphabet == {"a", "*", "?", ".", "/"}
SubjectAlphabet == {"a", "A", "?", ".", "/", "\n"}

GlobInit ==
    /\ tree = {}
    /\ unreadable = {}
    /\ content = <<>>
    /\ sha1FilePath = PathJoin(OtherDir, ManifestName)
    /\ reports = [p \in Range(ReportPaths) |-> NoFile]
    /\ manifestText = NoFile
    /\ rawExcludeDirs = <<>>
    /\ rawExcludeFiles = <<>>
    /\ ignoreConfigFlag = FALSE
    /\ IdleRun
    /\ IdleHash
    /\ IdleDispatch
    /\ lastIo = NoIo
    /\ IdleSteps
    /\ tested = "unset"
    /\ glob \in SeqsUpTo(GlobAlphabet, MaxGlobLen)
    /\ subject \in SeqsUpTo(SubjectAlphabet, MaxSubjectLen)

GlobTest ==
    /\ tested = "unset"
    /\ tested' = IF RegexTest(globToRegex(glob), subject) THEN "true" ELSE "false"
    /\ UNCHANGED <<stepVars, glob, subject, fsVars, argVars, walkVars, sumVars, runVars, hashVars, dispatchVars>>

GlobNext == GlobTest

GlobSpec == GlobInit /\ [][GlobNext]_vars

RECURSIVE GlobDenotes(_, _, _, _, _)
\* What a pattern means, read off the pattern itself: p[m..] equals s[n..]
\* case-insensitively, each "*" standing for a run of characters none of
\* which is in `barred`.
GlobDenotes(p, m, s, n, barred) ==
    IF m > Len(p) THEN n = Len(s) + 1
    ELSE IF p[m] = "*"
         THEN \/ GlobDenotes(p, m + 1, s, n, barred)
              \/ /\ n <= Len(s)
                 /\ s[n] \notin barred
                 /\ GlobDenotes(p, m, s, n + 1, barred)
         ELSE /\ n <= Len(s)
              /\ Canonicalize(p[m]) = Canonicalize(s[n])
              /\ GlobDenotes(p, m + 1, s, n + 1, barred)

\* C8 (as stated): a compiled pattern matches a string iff the whole string
\* equals the pattern case-insensitively, each "*" standing for any run of
\* characters whatsoever and every other character for itself.
C8_StarMatchesAnyRun ==
    tested # "unset" =>
        (tested = "true" <=> GlobDenotes(glob, 1, subject, 1, {}))

\* C8 (amended): the same, each "*" standing for any run of characters other
\* than line terminators ("/" included); "?", "." match only themselves.
C8_GlobSemantics ==
    tested # "unset" =>
        (tested = "true" <=> GlobDenotes(glob, 1, subject, 1, LineTerminators))

\* C8 witness: a pattern with a star and a literal "?" or "." has matched a
\* string holding a "/".
C8_Witness ==
    /\ tested = "true"
    /\ \E k \in DOMAIN glob : glob[k] = "*"
    /\ \E k \in DOMAIN glob : glob[k] \in {"?", "."}
    /\ \E k \in DOMAIN subject : subject[k] = "/"

----------------------------------------------------------------------------
(* What the exclusion rules mean, read off the raw patterns *)

\* A raw pattern applied to an entry: with a separator it is a path rule,
\* resolved against the scan root and held against the entry's absolute
\* path; without one it is a name rule, held against the entry's bare name.
RuleMatches(raw, absPath) ==
    IF "/" \in Chars(normalizePath(raw))
    THEN GlobDenotes(normalizePath(PathResolve(targetDir, raw)), 1,
                     normalizePath(absPath), 1, LineTerminators)
    ELSE GlobDenotes(normalizePath(raw), 1, PathBasename(absPath), 1, LineTerminators)

MatchedBy(rawList, absPath) == \E k \in DOMAIN rawList : RuleMatches(rawList[k], absPath)

\* p lies strictly beneath directory d (both absolute, or both relative).
Beneath(p, d) == IsPrefix(d \o <<"/">>, p)

\* Every regular file at or below the scan root.
FilesOfTarget ==
    (tree \cap UniverseFiles) \cup {p \in Range(PlainFiles) : Beneath(p, targetDir)}

DirsAbove(f) == {d \in tree \cap UniverseDirs : Beneath(f, d)}

SurvivesExclusion(f) ==
    /\ ~MatchedBy(rawExcludeFiles, f)
    /\ \A d \in DirsAbove(f) : ~MatchedBy(rawExcludeDirs, d)

BelowReadableDirs(f) ==
    \A d \in DirsAbove(f) \cup {targetDir} : d \notin unreadable

Relative(S) == {PathRelative(targetDir, f) : f \in S}

Compared == script = "files" /\ pc \in {"compared", "missingReported", "done"}

\* The walk and the comparison are just over: the file system is still the
\* one that was walked (no report of this run has been written yet).
JustCompared == script = "files" /\ pc = "compared"

RECURSIVE KeepsExactly(_, _, _)
\* out is src with the elements of `drop` removed and nothing else changed:
\* same order, duplicates kept.
KeepsExactly(out, src, drop) ==
    IF src = <<>> THEN out = <<>>
    ELSE IF Head(src) \in drop THEN KeepsExactly(out, Tail(src), drop)
    ELSE out # <<>> /\ Head(out) = Head(src) /\ KeepsExactly(Tail(out), Tail(src), drop)

\* C1: missing is exactly the subsequence of the manifest paths, in manifest
\* order and with duplicates kept, that are not in the walked set; extra is
\* exactly the subsequence of the walked paths, in walk order, that are not
\* among the manifest paths.
C1_Reconciliation ==
    Compared =>
        /\ KeepsExactly(missing, expectedFiles, Range(actualFiles))
        /\ KeepsExactly(extra, actualFiles, Range(expectedFiles))

\* C1 witness: a path listed twice is reported missing twice, while some
\* walked file is extra.
C1_Witness ==
    /\ Compared
    /\ Len(missing) = 2 /\ missing[1] = missing[2]
    /\ extra # <<>>

\* C2 (as stated): missing and extra are both empty iff the set of relative
\* paths of the tree that survive exclusion equals the set of manifest paths.
C2_EmptyIffSurvivingEqual ==
    JustCompared =>
        ((missing = <<>> /\ extra = <<>>)
            <=> Relative({f \in FilesOfTarget : SurvivesExclusion(f)})
                    = Range(expectedFiles))

\* C2 (amended): missing and extra are both empty iff the set of relative
\* paths of the files that survive exclusion and lie below no unreadable
\* directory equals the set of manifest paths.
C2_EmptyIffEnumeratedEqual ==
    JustCompared =>
        ((missing = <<>> /\ extra = <<>>)
            <=> Relative({f \in FilesOfTarget :
                              SurvivesExclusion(f) /\ BelowReadableDirs(f)})
                    = Range(expectedFiles))

\* C2 witness: a run with a non-empty manifest and an excluded directory
\* reports nothing missing and nothing extra.
C2_Witness ==
    /\ JustCompared
    /\ missing = <<>> /\ extra = <<>>
    /\ expectedFiles # <<>>
    /\ excludedLog.dirs # <<>>

\* C6 (as stated): a directory matched by a directory exclusion rule is never
\* read, and no file beneath it appears in the walked list, in extra or in
\* missing, also when the manifest lists that file.
C6_ExcludedDirNowhere ==
    JustCompared =>
        \A d \in tree \cap UniverseDirs :
            MatchedBy(rawExcludeDirs, d) =>
                /\ d \notin Range(readdirCalls)
                /\ \A f \in {g \in FilesOfTarget : Beneath(g, d)} :
                      PathRelative(targetDir, f) \notin
                          Range(actualFiles) \cup Range(extra) \cup Range(missing)

\* An entry is met by the walk when readdir listed its directory.
Met(p) == PathDirname(p) \in Range(readdirCalls) \ unreadable

\* C7: an entry met during the walk is excluded iff its absolute normalized
\* path matches some path rule of its own kind or its bare name matches some
\* name rule of its own kind; rules of the other kind never exclude it.
C7_ExclusionEvaluation ==
    JustCompared =>
        LET rules == ExcludeRules(rawExcludeDirs, rawExcludeFiles, targetDir)
            rel(p) == PathRelative(targetDir, p)
        IN  /\ \A d \in {p \in tree \cap UniverseDirs : Met(p)} :
                  LET hit == \/ SomeTest(rules.dirPaths, normalizePath(d))
                             \/ SomeTest(rules.dirNames, PathBasename(d))
                  IN  /\ hit <=> rel(d) \in Range(excludedLog.dirs)
                      /\ hit <=> d \notin Range(readdirCalls)
            /\ \A f \in {p \in FilesOfTarget : Met(p)} :
                  LET hit == \/ SomeTest(rules.filePaths, normalizePath(f))
                             \/ SomeTest(rules.fileNames, PathBasename(f))
                  IN  /\ hit <=> rel(f) \in Range(excludedLog.files)
                      /\ hit <=> rel(f) \notin Range(actualFiles)

\* C7 witness: a directory path rule that also matches a file's path has
\* excluded the directory and left the file listed.
C7_Witness ==
    /\ JustCompared
    /\ rawExcludeDirs = << <<"d", "/", "*">> >>
    /\ <<"d", "/", "e">> \in Range(excludedLog.dirs)
    /\ <<"d", "/", "a">> \in Range(actualFiles)

----------------------------------------------------------------------------
(* Claims about the checksum loop *)

Contains(line, part) ==
    \E k \in 0..(Len(line) - Len(part)) : SubSeq(line, k + 1, k + Len(part)) = part

\* The first 10 hexadecimal digits of the SHA-1 of data.
FingerprintOf(data) == SubSeq(Sha1Hex(data), 1, HashLength)

\* line is the entry's path followed by a parenthesised detail.
HasDetail(line, filePath) ==
    /\ IsPrefix(filePath \o <<" ", "(">>, line)
    /\ line[Len(line)] = ")"

\* The step appends exactly one line with a detail for filePath to the
\* script's mismatch / failure sequence and leaves `missing` alone.
RecordsFailure(filePath) ==
    /\ missingFiles' = missingFiles
    /\ \/ /\ script = "checksum"
          /\ Len(mismatches') = Len(mismatches) + 1
          /\ SubSeq(mismatches', 1, Len(mismatches)) = mismatches
          /\ HasDetail(mismatches'[Len(mismatches')], filePath)
       \/ /\ script = "checksum_old"
          /\ Len(failedChecksums') = Len(failedChecksums) + 1
          /\ SubSeq(failedChecksums', 1, Len(failedChecksums)) = failedChecksums
          /\ HasDetail(failedChecksums'[Len(failedChecksums')], filePath)

LastRecorded == IF script = "checksum" THEN mismatches'[Len(mismatches')]
                ELSE failedChecksums'[Len(failedChecksums')]

\* C9 (as stated): each pass of the loop classifies its entry: nothing at
\* targetDir/relativePath puts the path in missing; a file whose fingerprint
\* equals the manifest's, case ignored, is reported nowhere; a file whose
\* fingerprint differs is put in the mismatches with a detail naming both
\* fingerprints.
C9_Classification ==
    [][ i' = i + 1 =>
          LET entry == entries[i']
              fullPath == PathJoin(targetDir, entry.filePath)
              hashed == FileExists(fullPath) /\ probeLog'[i'].read = "ok"
              actual == FingerprintOf(DataAt(fullPath))
              same == toLowerCase(actual) = toLowerCase(entry.expectedHash)
          IN  /\ Access(fullPath) # "ok" =>
                    /\ missingFiles' = Append(missingFiles, entry.filePath)
                    /\ UNCHANGED <<mismatches, failedChecksums>>
              /\ hashed /\ same => UNCHANGED <<mismatches, missingFiles, failedChecksums>>
              /\ hashed /\ ~same =>
                    /\ RecordsFailure(entry.filePath)
                    /\ Contains(LastRecorded, toLowerCase(entry.expectedHash))
                    /\ Contains(LastRecorded, actual)
      ]_vars

\* The read of the entry just processed failed.
ReadFailed == i' = i + 1 /\ probeLog'[i'].read \notin {"ok", "unread"}

\* A checksum run ends only by its report step, by SIGINT, or because the
\* manifest could not be read; the report step comes after the last entry.
EndsAfterLastEntry ==
    script \in ChecksumScripts /\ pc' # pc =>
        /\ pc' = "done" => i = Len(entries) /\ Len(probeLog) = Len(entries)
        /\ pc' = "fatal" => pc = "start" \/ i = Len(entries)

\* C10 (as stated): a failure of the hash computation on an entry is not
\* fatal: the entry is recorded in the mismatch / failure sequence with an
\* error detail, the loop goes on to the later entries and the run reaches
\* its report step.
C10_FailureInMismatches ==
    [][ /\ ReadFailed =>
              /\ pc' = "parsed" /\ exitCode' = NotExited
              /\ RecordsFailure(entries[i'].filePath)
        /\ EndsAfterLastEntry
      ]_vars

\* C10 (amended): as above, except that a file that vanished between the
\* probe and the read (ENOENT) is put in missing, without a detail, by the
\* script that keeps a missing list.
C10_FailureRecorded ==
    [][ /\ ReadFailed =>
              /\ pc' = "parsed" /\ exitCode' = NotExited
              /\ IF script = "checksum" /\ probeLog'[i'].read = "ENOENT"
                 THEN /\ missingFiles' = Append(missingFiles, entries[i'].filePath)
                      /\ mismatches' = mismatches
                 ELSE RecordsFailure(entries[i'].filePath)
        /\ EndsAfterLastEntry
      ]_vars

\* C10 witness: the first entry's file vanished before its read, the second
\* entry's read was refused, and the run wrote its report and ended.
C10_Witness ==
    /\ script = "checksum" /\ pc = "done"
    /\ Len(probeLog) = 2
    /\ probeLog[1].read = "ENOENT" /\ probeLog[2].read = "EACCES"
    /\ missingFiles = <<probeLog[1].filePath>>
    /\ Len(mismatches) = 1
    /\ reports[outputFilePath].exists

----------------------------------------------------------------------------
(* Claims about runs and their reports *)

Finished(k) == history[k].end = "done"

\* C3 (as stated): after a run that completed without a fatal error each
\* report it manages exists iff its category is non-empty in that run, and
\* then holds exactly that run's entries.
C3_SidecarLifecycle ==
    \A k \in DOMAIN history :
        LET h == history[k]
            listed(path, list) ==
                /\ h.reports[path].exists <=> list # <<>>
                /\ h.reports[path].exists => h.reports[path].data = Join(list, <<"\n">>)
        IN  Finished(k) =>
              /\ h.script \in FileListScripts =>
                    /\ listed(missingFilePath, h.missing)
                    /\ listed(extraFilePath, h.extra)
              /\ h.script = "checksum" =>
                    /\ h.reports[outputFilePath].exists
                          <=> (h.mismatches # <<>> \/ h.missingFiles # <<>>)
                    /\ h.reports[outputFilePath].exists =>
                          Range(h.mismatches) \cup Range(h.missingFiles)
                              \subseteq Range(Split(h.reports[outputFilePath].data, "\n"))

\* C4 (as stated): two consecutive file-list runs, both completed, leave the
\* same missing report and the same extra report (or the same absence).
C4_Idempotence ==
    \A k \in DOMAIN history :
        (/\ k + 1 \in DOMAIN history
         /\ history[k].script = "files" /\ history[k + 1].script = "files"
         /\ Finished(k) /\ Finished(k + 1))
        => /\ history[k].reports[missingFilePath] = history[k + 1].reports[missingFilePath]
           /\ history[k].reports[extraFilePath] = history[k + 1].reports[extraFilePath]

AllChecksPassed(h) ==
    /\ h.end # "fatal"
    /\ h.missing = <<>> /\ h.extra = <<>>
    /\ h.mismatches = <<>> /\ h.missingFiles = <<>> /\ h.failedChecksums = <<>>

\* C5 (as stated): a run exits with status 0 iff all its checks passed, and
\* with a nonzero status when it found a missing, extra or mismatch entry or
\* met a fatal I/O error.
C5_ExitStatus ==
    \A k \in DOMAIN history :
        history[k].script \in {"files", "checksum"} =>
            (history[k].exitCode = 0 <=> AllChecksPassed(history[k]))

----------------------------------------------------------------------------
(* Claims about errors *)

\* The step is the tree walk of a file-list run.
WalkStep == script \in FileListScripts /\ pc = "parsed" /\ pc' # pc

\* f is kept by the running script's exclusion.
SurvivesScript(f) ==
    IF script = "files" THEN SurvivesExclusion(f)
    ELSE ~ShouldExclude(f, excludeDirs)

\* C11 (as stated): the walk of a file-list run is never aborted by a
\* directory that cannot be opened: the run goes on to the comparison, no
\* file beneath such a directory is listed, and every other file that
\* survives exclusion is.
C11_UnreadableDirNotFatal ==
    [][ WalkStep =>
          /\ pc' = "compared"
          /\ exitCode' = NotExited
          /\ \A f \in FilesOfTarget :
                IF BelowReadableDirs(f)
                THEN SurvivesScript(f) => PathRelative(targetDir, f) \in Range(actualFiles')
                ELSE PathRelative(targetDir, f) \notin Range(actualFiles')
      ]_vars

\* No result of any kind has been produced and no file has been probed.
NothingProduced ==
    /\ missing = <<>> /\ extra = <<>> /\ actualFiles = <<>>
    /\ mismatches = <<>> /\ missingFiles = <<>> /\ failedChecksums = <<>>
    /\ i = 0 /\ probeLog = <<>> /\ readdirCalls = <<>>

\* C12: with a manifest that cannot be read the run is fatal at startup: the
\* read ends the run with exit status 1, and at no step is a report created,
\* overwritten or deleted, a file probed or hashed, or a result produced.
C12_UnreadableManifestFatal ==
    [][ ~manifestText.exists =>
          /\ pc = "start" /\ pc' \notin {"start", "interrupted"} =>
                pc' = "fatal" /\ exitCode' = 1
          /\ pc' \in {"idle", "start", "fatal", "interrupted"}
          /\ reports' = reports
          /\ tree' = tree
          /\ NothingProduced'
      ]_vars

\* C12 witness: a checksum run on an unreadable manifest has ended with
\* status 1 and the report left by an earlier run is still there.
C12_Witness ==
    /\ ~manifestText.exists
    /\ script = "checksum" /\ pc = "fatal" /\ exitCode = 1
    /\ reports[outputFilePath] = StaleReport

\* The step is a report step: the run saves or deletes a report.
ReportStep ==
    /\ pc' # pc /\ pc' # "interrupted"
    /\ \/ pc \in {"compared", "missingReported"}
       \/ script \in ChecksumScripts /\ pc = "parsed" /\ i = Len(entries)

\* C13: deleting a report that does not exist is no error and the run goes
\* on; a failed write of a report, and a failed deletion for any reason but
\* the file not existing, end the run with exit status 1.
C13_SidecarIoFailures ==
    [][ ReportStep =>
          /\ lastIo'.op \in {"writeFile", "unlink"}
          /\ lastIo'.op = "unlink" /\ lastIo'.error = "ENOENT" =>
                /\ pc' \in {"missingReported", "done"}
                /\ exitCode' \in {NotExited, 0}
                /\ reports' = reports
          /\ \/ lastIo'.op = "writeFile" /\ lastIo'.error # "ok"
             \/ lastIo'.op = "unlink" /\ lastIo'.error \notin {"ok", "ENOENT"}
             => pc' = "fatal" /\ exitCode' = 1
      ]_vars

\* C13 witness: a checksum run with nothing to report tried to delete a
\* report that was not there, and ended with status 0.
C13_Witness ==
    /\ script = "checksum" /\ pc = "done" /\ exitCode = 0
    /\ lastIo = [op |-> "unlink", path |-> outputFilePath, error |-> "ENOENT"]
    /\ entries # <<>>


----------------------------------------------------------------------------
(* Claims about the manifest parse *)

\* The lines of a text, read off the positions of its line feeds.
Breaks(text) == {0, Len(text) + 1} \cup {k \in DOMAIN text : text[k] = "\n"}
NthBreak(text, j) ==
    CHOOSE b \in Breaks(text) : Cardinality({c \in Breaks(text) : c < b}) = j - 1
LinesOf(text) ==
    [j \in 1..(Cardinality(Breaks(text)) - 1) |->
        SubSeq(text, NthBreak(text, j) + 1, NthBreak(text, j + 1) - 1)]

\* A string without its leading and trailing white space.
Stripped(s) ==
    LET ink == {k \in DOMAIN s : s[k] \notin WhiteSpace}
    IN  IF ink = {} THEN <<>>
        ELSE SubSeq(s, CHOOSE k \in ink : \A j \in ink : k <= j,
                       CHOOSE k \in ink : \A j \in ink : k >= j)

\* The lines of the manifest that count: trimmed length at least 11.
KeptLines == SelectSeq(LinesOf(manifestText.data), LAMBDA line : Len(Stripped(line)) >= 11)

\* What is left of a line after its first n characters, trimmed, with
\* forward slashes only.
PathAfter(line, n) ==
    LET rest == Stripped(SubSeq(line, n + 1, Len(line)))
    IN  [k \in DOMAIN rest |-> IF rest[k] = "\\" THEN "/" ELSE rest[k]]

\* The paths the run parsed, whichever script it is.
ParsedPaths ==
    IF script \in ChecksumScripts
    THEN [k \in DOMAIN entries |-> entries[k].filePath]
    ELSE expectedFiles

\* C14: parsing a readable manifest never fails; the lines whose trimmed
\* length is below 11 yield nothing, every other line yields exactly one
\* entry, and the entries stand in the order of their lines.
C14_ParseTotalOrdered ==
    /\ pc # "fatal"
    /\ pc = "parsed" =>
          /\ Len(ParsedPaths) = Len(KeptLines)
          /\ \A k \in DOMAIN KeptLines : ParsedPaths[k] = PathAfter(KeptLines[k], 11)

C14_Witness ==
    /\ pc = "parsed"
    /\ script \in FileListScripts
    /\ manifestText = ManifestOf(<<Str10 \o <<" ">>, UpperStr10 \o <<" ", "a">>>>)
    /\ expectedFiles = <<(<<"a">>)>>

\* C15, as stated: the fingerprint is the line's first 10 characters in
\* lower case and the path is everything after those 10 characters, trimmed,
\* with forward slashes.
C15_PathIsRemainderAfterTen ==
    pc = "parsed" =>
       \A k \in DOMAIN KeptLines :
          /\ ParsedPaths[k] = PathAfter(KeptLines[k], 10)
          /\ script \in ChecksumScripts =>
                entries[k].expectedHash = toLowerCase(SubSeq(KeptLines[k], 1, 10))

\* C15, amended: the fingerprint is the line's first 10 characters in lower
\* case; the 11th character is dropped whatever it is, and the path is what
\* follows it, trimmed, with forward slashes.
C15_PathAfterSeparator ==
    pc = "parsed" =>
       /\ Len(ParsedPaths) = Len(KeptLines)
       /\ \A k \in DOMAIN KeptLines :
             /\ ParsedPaths[k] = PathAfter(KeptLines[k], 11)
             /\ script \in ChecksumScripts =>
                   /\ entries[k].expectedHash = toLowerCase(SubSeq(KeptLines[k], 1, 10))
                   /\ entries[k].filePath = PathAfter(KeptLines[k], 11)

C15_Witness ==
    /\ pc = "parsed"
    /\ script = "checksum"
    /\ manifestText = ManifestOf(<<UpperStr10 \o <<" ", "a">>,
                                   Str10 \o <<"*", "d", "\\", "a", " ">>>>)
    /\ entries = <<[expectedHash |-> Str10, filePath |-> <<"a">>],
                   [expectedHash |-> Str10, filePath |-> <<"d", "/", "a">>]>>

\* C25: every entry the parser produces has a non-empty path: a line yields
\* an entry only if it holds 10 fingerprint characters, a separator and at
\* least one path character.
C25_EntriesHaveNonEmptyPath ==
    pc = "parsed" =>
       /\ \A k \in DOMAIN ParsedPaths : ParsedPaths[k] # <<>>
       /\ \A k \in DOMAIN KeptLines : Len(Stripped(KeptLines[k])) >= 12

----------------------------------------------------------------------------
(* Claims about the hasher *)

HexDigits == {"0", "1", "2", "3", "4", "5", "6", "7", "8", "9",
              "a", "b", "c", "d", "e", "f"}

\* C16: whenever calculateSHA1 returns a fingerprint, it is the first 10
\* characters of the lower-case hexadecimal SHA-1 digest of the file's
\* content, with either method, and so the same for every call on the same
\* content.
C16_FingerprintIsDigestPrefix ==
    \A k \in DOMAIN hashLog :
       hashLog[k].result.kind = "value" =>
          /\ hashLog[k].result.hash = SubSeq(Sha1Hex(content[hashPath]), 1, 10)
          /\ Len(hashLog[k].result.hash) = 10
          /\ Chars(hashLog[k].result.hash) \subseteq HexDigits
----------------------------------------------------------------------------
(* Claims about the reports' format *)

LineCount(data) ==
    IF data = <<>> THEN 0 ELSE Cardinality({k \in DOMAIN data : data[k] = "\n"}) + 1

\* The entries a run reports in the sidecar at path q.
ReportedEntries(q) ==
    IF script \in FileListScripts
    THEN (IF q = missingFilePath THEN missing ELSE extra)
    ELSE IF script = "checksum" THEN mismatches \o missingFiles
    ELSE failedChecksums

\* A sidecar written by this step.
Written(q) == reports'[q] # reports[q] /\ reports'[q].exists

\* C17, as stated: a written sidecar has as many lines as the run reports
\* entries in its categories.
C17_LinesEqualEntries ==
    [][ \A q \in Range(ReportPaths) :
           Written(q) => LineCount(reports'[q].data) = Len(ReportedEntries(q)) ]_vars

IsHeading(line) == Len(line) >= 3 /\ SubSeq(line, 1, 3) = <<"=", "=", "=">>

\* The heading and spacing lines of the checksum report: a heading for each
\* category that has entries, and an empty line after the mismatches.
HeadingLines(q) ==
    IF script = "checksum"
    THEN (IF mismatches # <<>> THEN 2 ELSE 0) + (IF missingFiles # <<>> THEN 1 ELSE 0)
    ELSE 0

\* C17, amended: a written sidecar holds the reported entries one per line
\* and in order; the checksum report adds a heading line before each
\* category that has entries and an empty line after the mismatches, and
\* nothing else.
C17_LinesEqualEntriesAndHeadings ==
    [][ \A q \in Range(ReportPaths) :
           Written(q) =>
              /\ LineCount(reports'[q].data)
                    = Len(ReportedEntries(q)) + HeadingLines(q)
              /\ SelectSeq(LinesOf(reports'[q].data),
                           LAMBDA line : line # <<>> /\ ~IsHeading(line))
                    = ReportedEntries(q) ]_vars

C17_Witness ==
    /\ script = "checksum"
    /\ pc = "done"
    /\ mismatches # <<>>
    /\ missingFiles # <<>>
    /\ lastIo = [op |-> "writeFile", path |-> outputFilePath, error |-> "ok"]
    /\ LineCount(reports[outputFilePath].data) = 5
----------------------------------------------------------------------------
(* Claims about the verify command *)

Dispatched == verifyPc \notin {"idle", "start"}

\* C18: `verify <sha1-file>` with an existing manifest and no mode flag runs
\* the file-list script on that manifest.
C18_DefaultModeRunsFileList ==
    Dispatched /\ argv = <<sha1FilePath>> /\ ManifestExists =>
        child = [script |-> "files.js", args |-> <<sha1FilePath>>]

ModeFlags == FilesFlags \cup ChecksumFlags

\* C19: `verify <sha1_file> <target_directory> --files|--checksum
\* [-xd <pattern>] [-xf <pattern>]` runs the script of the selected mode, and
\* the script receives the manifest, the target directory and the patterns.
C19_ArgumentsForwarded ==
    Dispatched /\ argv \in ReadmeCommands /\ ManifestExists =>
        /\ child.script = (IF argv[3] \in FilesFlags THEN "files.js" ELSE "checksum.js")
        /\ child.args = SelectSeq(argv, LAMBDA arg : arg \notin ModeFlags)
----------------------------------------------------------------------------
(* Claims about cancellation *)

\* The interrupt signal has been delivered to the run.
Signalled == history # <<>> /\ history[Len(history)].end = "interrupted"

\* C20: once the interrupt signal is delivered during a checksum run, the
\* process has terminated (with status 0), no further entry is probed or
\* hashed, and no sidecar is written or deleted.
C20_InterruptStopsRun ==
    /\ [](Signalled => pc = "interrupted" /\ exitCode = 0)
    /\ [][ Signalled =>
             /\ i' = i
             /\ probeLog' = probeLog
             /\ mismatches' = mismatches
             /\ missingFiles' = missingFiles
             /\ failedChecksums' = failedChecksums
             /\ reports' = reports
             /\ lastIo' = lastIo
             /\ pc' = "interrupted" ]_vars

C20_Witness ==
    /\ Signalled
    /\ script = "checksum"
    /\ pc = "interrupted"
    /\ i = 1
    /\ Len(entries) = 2
    /\ lastIo = NoIo

\* The run's sidecar is what the run's findings call for.
SidecarInLine ==
    IF script = "checksum"
    THEN reports[outputFilePath] =
            SaveOrDelete(reports, outputFilePath,
                         ReportLines(mismatches, missingFiles))[outputFilePath]
    ELSE reports[oldReportPath] = File(Join(failedChecksums, <<"\n">>))

\* C28: a checksum run that has exited with status 0 has evaluated every
\* manifest entry and left its sidecar in line with its findings; a run
\* that stopped before its last entry, as on an interrupt, has not exited
\* with status 0.
C28_ExitZeroMeansComplete ==
    script \in ChecksumScripts /\ exitCode = 0 =>
        /\ i = Len(entries)
        /\ Len(probeLog) = Len(KeptLines)
        /\ SidecarInLine
----------------------------------------------------------------------------
(* Claims about the order of evaluation *)

\* list' is list, or list with one line about filePath appended.
Extends(list, grown, filePath) ==
    \/ grown = list
    \/ /\ Len(grown) = Len(list) + 1
       /\ SubSeq(grown, 1, Len(list)) = list
       /\ IsPrefix(filePath, grown[Len(grown)])

Findings == Len(mismatches) + Len(missingFiles) + Len(failedChecksums)

\* A step of a checksum run that moves the loop or touches a list.
LoopStep ==
    /\ script \in ChecksumScripts
    /\ script' = script
    /\ <<i, mismatches, missingFiles, failedChecksums>>'
          # <<i, mismatches, missingFiles, failedChecksums>>

\* C21: in checksum mode each entry is evaluated once, in manifest order,
\* and gets one outcome: its pass appends at most one line across the
\* mismatches and the missing files, never one to each, and that line is
\* about the entry; so both lists stand in manifest order and entries with
\* the same path are reported one by one.
C21_OneOutcomePerEntry ==
    /\ [](script \in ChecksumScripts => Findings <= i /\ Len(probeLog) = i)
    /\ [][ LoopStep =>
             /\ i' = i + 1
             /\ i' <= Len(entries)
             /\ Findings' <= Findings + 1
             /\ Extends(mismatches, mismatches', entries[i'].filePath)
             /\ Extends(missingFiles, missingFiles', entries[i'].filePath)
             /\ Extends(failedChecksums, failedChecksums', entries[i'].filePath)
       ]_vars

C21_Witness ==
    /\ script = "checksum"
    /\ pc = "done"
    /\ Len(entries) = 2
    /\ entries[1].filePath = entries[2].filePath
    /\ Len(mismatches) = 1
    /\ missingFiles = <<entries[2].filePath>>

\* The operations of one kind that have begun and not settled.
Pending(op) == {o \in inFlight : o.op = op}

\* C22: at every moment at most one file is being hashed and at most one
\* directory is being read; a file is hashed only for the entry that
\* follows the entries classified so far; and a call of the walk examines
\* an item only when every call it made on a subdirectory has returned.
C22_StrictlySequential ==
    /\ Cardinality(Pending("hash")) <= 1
    /\ Cardinality(Pending("readdir")) <= 1
    /\ \A o \in Pending("hash") :
          /\ i < Len(entries)
          /\ o.target = EntryPath
          /\ Len(probeLog) = i
    /\ \A dir \in DOMAIN walkCalls :
          walkCalls[dir].state = "loop" =>
             \A sub \in DOMAIN walkCalls :
                PathDirname(sub) = dir => walkCalls[sub].state = "done"

\* C22 witness: the walk of d and of the directory inside it has returned
\* and the read of d's sibling is under way, the only one.
C22_Witness ==
    /\ script = "files"
    /\ DOMAIN walkCalls = {TargetDir} \cup (UniverseDirs \cap StepTreePaths)
    /\ walkCalls[Universe[2].path].state = "done"
    /\ walkCalls[Universe[4].path].state = "done"
    /\ walkCalls[Universe[6].path].state = "reading"
    /\ walkCalls[TargetDir].state = "waiting"
    /\ inFlight = {[op |-> "readdir", target |-> Universe[6].path]}

----------------------------------------------------------------------------
(* Claims about the walk over trees with sibling directories *)

TreeWalked == script = "files" /\ pc = "compared"

\* The walk comes to p: the root and every directory above p can be read
\* and no directory above p other than the root is excluded.
Reached(p) ==
    /\ targetDir \notin unreadable
    /\ \A d \in DirsAbove(p) :
          d \notin unreadable /\ (d = targetDir \/ ~MatchedBy(rawExcludeDirs, d))

NoDuplicates(list) == \A j, k \in DOMAIN list : list[j] = list[k] => j = k

\* The entry of directory c that is p or holds p, and its place in c's listing.
EntryToward(c, p) ==
    CHOOSE e \in {PathJoin(c, Readdir(c)[k].name) : k \in DOMAIN Readdir(c)} :
        e = p \/ Beneath(p, e)
PlaceIn(c, e) == CHOOSE k \in DOMAIN Readdir(c) : PathJoin(c, Readdir(c)[k].name) = e

\* A depth-first walk that follows each directory's listing meets p before q.
MetBefore(p, q) ==
    \E c \in (tree \cap UniverseDirs) \cup {targetDir} :
        /\ Beneath(p, c) /\ Beneath(q, c)
        /\ EntryToward(c, p) # EntryToward(c, q)
        /\ PlaceIn(c, EntryToward(c, p)) < PlaceIn(c, EntryToward(c, q))

InTraversalOrder(log) ==
    \A j, k \in DOMAIN log :
        j < k => MetBefore(PathJoin(targetDir, log[j]), PathJoin(targetDir, log[k]))

\* C23: the excluded-directories log holds, once each and in traversal
\* order, the relative paths of the excluded directories the walk comes to,
\* the excluded-files log those of the excluded files it comes to, and
\* nothing beneath an excluded directory is in either log.
C23_ExcludedLogs ==
    TreeWalked =>
        /\ Range(excludedLog.dirs) =
              Relative({d \in tree \cap UniverseDirs :
                           Reached(d) /\ MatchedBy(rawExcludeDirs, d)})
        /\ Range(excludedLog.files) =
              Relative({f \in FilesOfTarget :
                           Reached(f) /\ MatchedBy(rawExcludeFiles, f)})
        /\ NoDuplicates(excludedLog.dirs) /\ NoDuplicates(excludedLog.files)
        /\ InTraversalOrder(excludedLog.dirs) /\ InTraversalOrder(excludedLog.files)
        /\ \A d \in Range(excludedLog.dirs) :
              \A q \in Range(excludedLog.dirs) \cup Range(excludedLog.files) :
                  ~Beneath(q, d)

\* C23 witness: two sibling directories are excluded and logged in listing
\* order while files outside them are excluded too.
C23_Witness ==
    /\ TreeWalked
    /\ excludedLog.dirs = << <<"C", "o", "n", "f", "i", "g">>,
                             <<"C", "o", "n", "f", "i", "g", "s">> >>
    /\ <<"C", "o", "n", "f", "i", "g", "/", "a">> \in Relative(tree)
    /\ Len(excludedLog.files) = 3

HasSeparator(raw) == "/" \in Chars(raw) \/ "\\" \in Chars(raw)

NameRaws(rawList) == SelectSeq(rawList, LAMBDA raw : ~HasSeparator(raw))
PathRaws(rawList) == SelectSeq(rawList, LAMBDA raw : HasSeparator(raw))

\* The pattern of a path rule: the raw pattern resolved against the scan
\* root, with forward slashes.
ResolvedPattern(raw) == normalizePath(PathResolve(targetDir, raw))

\* Some name rule of rawList matches p's bare name or some path rule of
\* rawList matches p's absolute path.
InScope(rawList, p) ==
    \/ \E k \in DOMAIN NameRaws(rawList) :
          GlobDenotes(NameRaws(rawList)[k], 1, PathBasename(p), 1, LineTerminators)
    \/ \E k \in DOMAIN PathRaws(rawList) :
          GlobDenotes(ResolvedPattern(PathRaws(rawList)[k]), 1, normalizePath(p), 1,
                      LineTerminators)

\* C24: a raw pattern without "/" and "\" is compiled as a name rule and
\* held against the bare name of entries at every depth; one with a
\* separator is compiled as a path rule, resolved against the scan root, and
\* held against the absolute slash-normalized path only.
C24_PatternScope ==
    TreeWalked =>
        LET rules == ExcludeRules(rawExcludeDirs, rawExcludeFiles, targetDir)
        IN  /\ Len(rules.dirNames) = Len(NameRaws(rawExcludeDirs))
            /\ Len(rules.dirPaths) = Len(PathRaws(rawExcludeDirs))
            /\ Len(rules.fileNames) = Len(NameRaws(rawExcludeFiles))
            /\ Len(rules.filePaths) = Len(PathRaws(rawExcludeFiles))
            /\ \A d \in {p \in tree \cap UniverseDirs : Reached(p)} :
                  InScope(rawExcludeDirs, d)
                     <=> PathRelative(targetDir, d) \in Range(excludedLog.dirs)
            /\ \A f \in {p \in FilesOfTarget : Reached(p)} :
                  InScope(rawExcludeFiles, f)
                     <=> PathRelative(targetDir, f) \in Range(excludedLog.files)

\* C24 witness: a directory pattern written with a backslash has excluded
\* the nested directory it names, and a bare file name has excluded a file
\* at the second level.
C24_Witness ==
    /\ TreeWalked
    /\ rawExcludeDirs = << <<"d", "\\", "e">> >>
    /\ excludedLog.dirs = << <<"d", "/", "e">> >>
    /\ rawExcludeFiles = << <<"a">> >>
    /\ <<"d", "/", "a">> \in Range(excludedLog.files)
    /\ <<"C", "o", "n", "f", "i", "g", ".", "j", "s", "o", "n">> \in Range(actualFiles)
\* The directories the walk has to read: the root, and every directory of
\* the tree the walk comes to that no directory rule excludes.
DirsToRead ==
    {targetDir} \cup {d \in tree \cap UniverseDirs :
                         Beneath(d, targetDir) /\ Reached(d) /\ ~InScope(rawExcludeDirs, d)}

WalkBegins == script = "files" /\ pc = "parsed"

\* C26: the walk of a finite tree ends, after no more reads than the tree
\* has directories; it reads the root first, whatever the rules, and then
\* each directory it comes to that is not excluded, each exactly once, and
\* no directory outside the root.
C26_WalkReadsEachDirOnce ==
    /\ [][WalkBegins =>
             /\ pc' = "compared"
             /\ Len(readdirCalls') <= Cardinality(tree \cap UniverseDirs) + 1
       ]_vars
    /\ [](TreeWalked =>
            /\ Len(readdirCalls) >= 1
            /\ readdirCalls[1] = targetDir
            /\ NoDuplicates(readdirCalls)
            /\ Range(readdirCalls) = DirsToRead
            /\ \A d \in Range(readdirCalls) : d = targetDir \/ Beneath(d, targetDir))

\* C26 witness: a rule that matches every directory name, the root's too,
\* leaves the root read and nothing else; and a tree with nested and sibling
\* directories has each one read once.
C26_Witness ==
    /\ TreeWalked
    /\ \/ /\ rawExcludeDirs = << <<"*">> >>
          /\ tree \cap UniverseDirs = UniverseDirs
          /\ readdirCalls = <<targetDir>>
          /\ Len(actualFiles) = 2
       \/ /\ rawExcludeDirs = <<>>
          /\ tree \cap UniverseDirs = UniverseDirs
          /\ Len(readdirCalls) = Cardinality(UniverseDirs) + 1
\* The non-directory entries of the directories the walk has listed.
FilesListed == {f \in FilesOfTarget : Met(f)}

\* C27: every non-directory entry of every directory read stands in exactly
\* one of the walked file list and the excluded-files log, once, and the
\* walked list holds no path twice.
C27_WalkPartition ==
    TreeWalked =>
        /\ Range(actualFiles) \cup Range(excludedLog.files) = Relative(FilesListed)
        /\ Range(actualFiles) \cap Range(excludedLog.files) = {}
        /\ NoDuplicates(actualFiles)
        /\ NoDuplicates(excludedLog.files)
        /\ Len(actualFiles) + Len(excludedLog.files) = Cardinality(FilesListed)

\* C27 witness: files at both levels are split between the list and the log
\* while an unreadable directory's files are in neither.
C27_Witness ==
    /\ TreeWalked
    /\ rawExcludeFiles = << <<"a">> >>
    /\ Len(excludedLog.files) = 3
    /\ Len(actualFiles) = 1
    /\ unreadable # {}
    /\ FilesListed # FilesOfTarget

\* The directories of the tree named config, in any case.
ConfigDirs ==
    {d \in tree \cap UniverseDirs :
        toLowerCase(PathBasename(d)) = <<"c", "o", "n", "f", "i", "g">>}

\* C30: the walk of the script with -i skips an entry only if it is a
\* directory named config, in any case, or lies beneath one; an entry whose
\* name only starts with config is enumerated.
C30_OnlyConfigSkipped ==
    script = "files_i" /\ pc = "compared" =>
        \A f \in FilesOfTarget :
            normalizePath(PathRelative(targetDir, f)) \notin Range(actualFiles)
               => \E d \in ConfigDirs : Beneath(f, d)

----------------------------------------------------------------------------
(* Claims about what a run leaves alone *)

\* The sidecars the mode of the run in progress may touch.
OwnSidecars ==
    IF script' \in FileListScripts THEN {missingFilePath, extraFilePath}
    ELSE {outputFilePath}

\* The step leaves the tree as it is, or is the probe of an entry whose file
\* went away under it.
TreeLeftAlone ==
    /\ content' = content
    /\ \/ tree' = tree
       \/ /\ Len(probeLog') = Len(probeLog) + 1
          /\ probeLog'[Len(probeLog')].read = "ENOENT"
          /\ tree' = tree \ {PathJoin(targetDir, probeLog'[Len(probeLog')].filePath)}

\* The step changes no file but a sidecar of the run's own mode, beside the
\* manifest.
FrameStep ==
    /\ manifestText' = manifestText
    /\ TreeLeftAlone
    /\ \A q \in Range(ReportPaths) :
          reports'[q] # reports[q] =>
             /\ q \in OwnSidecars
             /\ PathDirname(q) = sha1Dir

\* C29: a file-list run creates, overwrites or deletes only its missing and
\* extra sidecars beside the manifest, a checksum run only
\* <manifest>_checksum_failed.txt beside the manifest; no run changes the
\* other mode's sidecars, the manifest or a file of the target tree.
C29_Frame == [][FrameStep]_vars
====
